---------------------------- MODULE Spec2Model ----------------------------
(***************************************************************************)
(* Model of the ESP8266 WiFi Mini irrigation controller                    *)
(* (ESP8266-WiFi-Mini-Irrigation.ino): the setup()/loop() control core,    *)
(* the request handler, the schedule validator, the misting scheduler and  *)
(* the credential/session service.                                         *)
(*                                                                         *)
(* An Arduino String is modelled as a sequence of one-character strings,   *)
(* with the 0-based indices of the Arduino String API.                     *)
(***************************************************************************)
EXTENDS Integers, Sequences, FiniteSets, TLC

(***************************************************************************)
(* Arduino String primitives (ESP8266 core WString), as used by the sketch *)
(***************************************************************************)

\* unsigned int conversion of an int argument: String::indexOf and substring take
\* unsigned int, so a negative index becomes one beyond every String length
\* (2^32 + i, represented by the largest integer)
Unsigned(i) == IF i < 0 THEN 2147483647 ELSE i

\* strstr from index f: the first index at or after f where pat occurs in s, or -1
FirstMatch(s, pat, f) ==
  LET hits == {i \in f..(Len(s) - Len(pat)) :
                 \A j \in 1..Len(pat) : s[i + j] = pat[j]}
  IN IF hits = {} THEN -1 ELSE CHOOSE i \in hits : \A j \in hits : i <= j

\* String::indexOf(pattern, fromIndex): -1 when fromIndex >= length
indexOfFrom(s, pat, from) ==
  IF Unsigned(from) >= Len(s) THEN -1 ELSE FirstMatch(s, pat, Unsigned(from))

indexOf(s, pat) == indexOfFrom(s, pat, 0)

\* String::substring(left, right): swaps when left > right, clips right to the length
substring(s, left, right) ==
  LET l  == Unsigned(left)
      r  == Unsigned(right)
      lo == IF l > r THEN r ELSE l
      hi == IF l > r THEN l ELSE r
  IN IF lo >= Len(s) THEN <<>>
     ELSE SubSeq(s, lo + 1, IF hi > Len(s) THEN Len(s) ELSE hi)

\* String::substring(left): to the end of the string
substringFrom(s, left) == substring(s, left, Len(s))

isSpace(c) == c \in {" ", "\t", "\n", "\r"}

RECURSIVE SkipSpace(_)
SkipSpace(s) == IF s # <<>> /\ isSpace(Head(s)) THEN SkipSpace(Tail(s)) ELSE s

RECURSIVE DropTrailingSpace(_)
DropTrailingSpace(s) ==
  IF s # <<>> /\ isSpace(s[Len(s)]) THEN DropTrailingSpace(SubSeq(s, 1, Len(s) - 1)) ELSE s

\* String::trim(): drops leading and trailing white space
trim(s) == DropTrailingSpace(SkipSpace(s))

startsWith(s, prefix) ==
  Len(s) >= Len(prefix) /\ SubSeq(s, 1, Len(prefix)) = prefix

Digits == <<"0","1","2","3","4","5","6","7","8","9">>

isDigit(c) == \E d \in 1..10 : Digits[d] = c

DigitValue(c) == (CHOOSE d \in 1..10 : Digits[d] = c) - 1

\* the value of the longest prefix of digits of s, continuing from acc (atol's digit loop)
RECURSIVE DigitsValue(_, _)
DigitsValue(s, acc) ==
  IF s = <<>> \/ ~isDigit(Head(s)) THEN acc
  ELSE DigitsValue(Tail(s), acc * 10 + DigitValue(Head(s)))

\* String::toInt() is atol(): leading white space, an optional sign, then digits up
\* to the first non-digit; 0 when there is no digit
toInt(s) ==
  LET t == SkipSpace(s)
  IN IF t = <<>> THEN 0
     ELSE IF Head(t) = "-" THEN 0 - DigitsValue(Tail(t), 0)
     ELSE IF Head(t) = "+" THEN DigitsValue(Tail(t), 0)
     ELSE DigitsValue(t, 0)

RECURSIVE NatToString(_)
NatToString(n) ==
  IF n < 10 THEN <<Digits[n + 1]>>
  ELSE NatToString(n \div 10) \o <<Digits[(n % 10) + 1]>>

\* String(int): decimal representation
IntToString(n) == IF n < 0 THEN <<"-">> \o NatToString(0 - n) ELSE NatToString(n)

(***************************************************************************)
(* String literals of the sketch                                           *)
(***************************************************************************)

S_GET == <<"G","E","T">>
S_POST == <<"P","O","S","T">>
S_HTTP == <<"H","T","T","P">>
S_COOKIE == <<"C","o","o","k","i","e",":"," ">>
T_RELAY_ON == <<"/","R","E","L","A","Y","=","O","N">>
T_RELAY_OFF == <<"/","R","E","L","A","Y","=","O","F","F">>
T_AUTO_START == <<"/","R","E","L","A","Y","=","A","U","T","O","_","S","T","A","R","T">>
T_SCHEDULE_SUBMIT == <<"s","c","h","e","d","u","l","e","=","S","u","b","m","i","t">>
T_UPDATE == <<"/","u","p","d","a","t","e">>
T_LOGIN == <<"/","l","o","g","i","n">>
T_AUTHENTICATE == <<"/","a","u","t","h","e","n","t","i","c","a","t","e">>
N_userName == <<"u","s","e","r","N","a","m","e">>
N_password == <<"p","a","s","s","w","o","r","d">>
N_SSID == <<"S","S","I","D">>
N_irrigationBeginHours == <<"i","r","r","i","g","a","t","i","o","n","B","e","g","i","n","H","o","u","r","s">>
N_irrigationDurationHours == <<"i","r","r","i","g","a","t","i","o","n","D","u","r","a","t","i","o","n","H","o","u","r","s">>
N_mistPeriodMinutes == <<"m","i","s","t","P","e","r","i","o","d","M","i","n","u","t","e","s">>
N_mistDurationSeconds == <<"m","i","s","t","D","u","r","a","t","i","o","n","S","e","c","o","n","d","s">>

\* setup(): webUserName = F("userX"); webPassword = F("passX")
webUserName == <<"u","s","e","r","X">>
webPassword == <<"p","a","s","s","X">>

defaultSsid == <<"N","E","T","G","E","A","R","8","7","_","E","X","T">>
defaultPassword == <<"#","#","#","#","#","#","#","#","#","#">>

\* Schedule defaultSchedule = {10, 4, 20, 5}
defaultSchedule ==
  [irrigationBeginHours |-> 10, irrigationDurationHours |-> 4,
   mistPeriodMinutes |-> 20, mistDurationSeconds |-> 5]

\* const Schedule NULL_SCHEDULE = {0, 0, 0, 0}
NULL_SCHEDULE ==
  [irrigationBeginHours |-> 0, irrigationDurationHours |-> 0,
   mistPeriodMinutes |-> 0, mistDurationSeconds |-> 0]

MkSchedule(b, d, p, s) ==
  [irrigationBeginHours |-> b, irrigationDurationHours |-> d,
   mistPeriodMinutes |-> p, mistDurationSeconds |-> s]

\* const bool RELAY_OFF = 0; const bool RELAY_ON = 1
RELAY_OFF == FALSE
RELAY_ON == TRUE

\* enum Automation
NULL_STATE == "NULL_STATE"
MANUAL_ACTIVE == "MANUAL_ACTIVE"
MANUAL_INACTIVE == "MANUAL_INACTIVE"
AUTO_CONFIG == "AUTO_CONFIG"
AUTO_START == "AUTO_START"
AUTO_RUN == "AUTO_RUN"

Automation == {NULL_STATE, MANUAL_ACTIVE, MANUAL_INACTIVE, AUTO_CONFIG, AUTO_START, AUTO_RUN}

(***************************************************************************)
(* File utilities                                                          *)
(***************************************************************************)

\* createPropertyValue(name, value): name + ": " + value + "\r\n"
createPropertyValue(nameStr, valueStr) ==
  nameStr \o <<":", " ">> \o valueStr \o <<"\r", "\n">>

\* createPropertyValue(name, int): createPropertyValue(name, String(valueInt))
createPropertyValueInt(nameStr, valueInt) ==
  createPropertyValue(nameStr, IntToString(valueInt))

\* extractPropertyValue(propertyCollection, propertyName)
extractPropertyValue(propertyCollection, propertyName) ==
  LET propertyMarker == propertyName \o <<":">>
      propertyIndex  == indexOf(propertyCollection, propertyMarker)
      valueIndex     == propertyIndex + Len(propertyMarker)
      lineBreakIndex == indexOfFrom(propertyCollection, <<"\r">>, valueIndex)
  IN IF propertyIndex # -1
     THEN IF lineBreakIndex = -1
          THEN trim(substringFrom(propertyCollection, valueIndex))
          ELSE trim(substring(propertyCollection, valueIndex, lineBreakIndex))
     ELSE <<>>

\* extractQueryValue(queryCollection, propertyName)
extractQueryValue(queryCollection, propertyName) ==
  LET propertyMarker == propertyName \o <<"=">>
      propertyIndex  == indexOf(queryCollection, propertyMarker)
      valueIndex     == propertyIndex + Len(propertyMarker)
      lineBreakIndex == indexOfFrom(queryCollection, <<"&">>, valueIndex)
  IN IF propertyIndex # -1
     THEN IF lineBreakIndex = -1
          THEN substringFrom(queryCollection, valueIndex)
          ELSE substring(queryCollection, valueIndex, lineBreakIndex)
     ELSE <<>>

\* extractTarget(request): the text between the first and the second space
extractTarget(request) ==
  LET indexStartTarget == indexOf(request, <<" ">>) + 1
      indexEndTarget   == indexOfFrom(request, <<" ">>, indexStartTarget)
  IN substring(request, indexStartTarget, indexEndTarget)

(***************************************************************************)
(* Schedule interpretation and validation                                  *)
(***************************************************************************)

\* isValidInteger(potentialInteger): no character is a non-digit
isValidInteger(potentialInteger) ==
  \A characterIndex \in 1..Len(potentialInteger) : isDigit(potentialInteger[characterIndex])

\* fault variant of validateIrrigationSchedule: the end of the irrigation window is
\* not checked against the end of the day
validateIrrigationSchedule_NoWindowCheck(schedule) ==
  /\ 0 <= schedule.irrigationBeginHours /\ schedule.irrigationBeginHours < 24
  /\ 0 < schedule.irrigationDurationHours
  /\ 0 < schedule.mistPeriodMinutes
  /\ schedule.mistPeriodMinutes < schedule.irrigationDurationHours * 60
  /\ 0 < schedule.mistDurationSeconds /\ schedule.mistDurationSeconds < 60

\* fault variant of validateIrrigationSchedule: begin hour 0 is rejected
validateIrrigationSchedule_BeginPositive(schedule) ==
  /\ 0 < schedule.irrigationBeginHours /\ schedule.irrigationBeginHours < 24
  /\ 0 < schedule.irrigationDurationHours
  /\ schedule.irrigationBeginHours + schedule.irrigationDurationHours < 24
  /\ 0 < schedule.mistPeriodMinutes
  /\ schedule.mistPeriodMinutes < schedule.irrigationDurationHours * 60
  /\ 0 < schedule.mistDurationSeconds /\ schedule.mistDurationSeconds < 60

\* fault variant of validateIrrigationSchedule: a mist period of 0 minutes is accepted
validateIrrigationSchedule_ZeroPeriod(schedule) ==
  /\ 0 <= schedule.irrigationBeginHours /\ schedule.irrigationBeginHours < 24
  /\ 0 < schedule.irrigationDurationHours
  /\ schedule.irrigationBeginHours + schedule.irrigationDurationHours < 24
  /\ 0 <= schedule.mistPeriodMinutes
  /\ schedule.mistPeriodMinutes < schedule.irrigationDurationHours * 60
  /\ 0 < schedule.mistDurationSeconds /\ schedule.mistDurationSeconds < 60

\* what validateIrrigationSchedule prints when a check fails
BeginComplaint == "irrigationBeginHours must be in the range 0 to 23."
DurationComplaint == "IrrigationDurationHours must be greater than 0 and the calculated end hours must be less than 23."
PeriodComplaint == "MistPeriodMinutes must be greater than 0 and less than the irrigation duration."
MistComplaint == "MistDurationSeconds must be greater than 0 and less than 60."

\* fault variant of validationMessages: the checks stop at the first complaint
validationMessages_FirstOnly(schedule) ==
  IF ~(0 <= schedule.irrigationBeginHours /\ schedule.irrigationBeginHours < 24)
  THEN {BeginComplaint}
  ELSE IF ~(0 < schedule.irrigationDurationHours
            /\ schedule.irrigationBeginHours + schedule.irrigationDurationHours < 24)
  THEN {DurationComplaint}
  ELSE IF ~(0 < schedule.mistPeriodMinutes
            /\ schedule.mistPeriodMinutes < schedule.irrigationDurationHours * 60)
  THEN {PeriodComplaint}
  ELSE IF ~(0 < schedule.mistDurationSeconds /\ schedule.mistDurationSeconds < 60)
  THEN {MistComplaint}
  ELSE {}

\* validateIrrigationSchedule(schedule): the complaints its four checks print
validationMessages(schedule) ==
  LET irrigationDurationMinutes == schedule.irrigationDurationHours * 60
  IN (IF ~(0 <= schedule.irrigationBeginHours /\ schedule.irrigationBeginHours < 24)
      THEN {BeginComplaint} ELSE {})
     \cup
     (IF ~(0 < schedule.irrigationDurationHours
           /\ schedule.irrigationBeginHours + schedule.irrigationDurationHours < 24)
      THEN {DurationComplaint}
      ELSE {})
     \cup
     (IF ~(0 < schedule.mistPeriodMinutes
           /\ schedule.mistPeriodMinutes < irrigationDurationMinutes)
      THEN {PeriodComplaint}
      ELSE {})
     \cup
     (IF ~(0 < schedule.mistDurationSeconds /\ schedule.mistDurationSeconds < 60)
      THEN {MistComplaint} ELSE {})

\* validateIrrigationSchedule(schedule): all four range checks are evaluated
validateIrrigationSchedule(schedule) ==
  LET irrigationDurationMinutes == schedule.irrigationDurationHours * 60
      beginOk    == 0 <= schedule.irrigationBeginHours /\ schedule.irrigationBeginHours < 24
      durationOk == 0 < schedule.irrigationDurationHours
                    /\ schedule.irrigationBeginHours + schedule.irrigationDurationHours < 24
      periodOk   == 0 < schedule.mistPeriodMinutes
                    /\ schedule.mistPeriodMinutes < irrigationDurationMinutes
      mistOk     == 0 < schedule.mistDurationSeconds /\ schedule.mistDurationSeconds < 60
  IN beginOk /\ durationOk /\ periodOk /\ mistOk

\* interpretScheduleRequest(request, schedule): [ok, schedule]; the schedule is
\* meaningful only when ok
interpretScheduleRequest(request) ==
  LET beginQueryIndex == indexOf(request, <<"?">>)
      endQueryIndex   == indexOf(request, S_HTTP)
      queryCollection == trim(substring(request, beginQueryIndex + 1, endQueryIndex - 1))
      irrigationBeginHoursStr    == extractQueryValue(queryCollection, N_irrigationBeginHours)
      irrigationDurationHoursStr == extractQueryValue(queryCollection, N_irrigationDurationHours)
      mistPeriodMinutesStr       == extractQueryValue(queryCollection, N_mistPeriodMinutes)
      mistDurationSecondsStr     == extractQueryValue(queryCollection, N_mistDurationSeconds)
  IN IF beginQueryIndex # -1 /\ endQueryIndex # -1
     THEN [ok |-> isValidInteger(irrigationBeginHoursStr)
                  /\ isValidInteger(irrigationDurationHoursStr)
                  /\ isValidInteger(mistPeriodMinutesStr)
                  /\ isValidInteger(mistDurationSecondsStr),
           schedule |-> MkSchedule(toInt(irrigationBeginHoursStr),
                                   toInt(irrigationDurationHoursStr),
                                   toInt(mistPeriodMinutesStr),
                                   toInt(mistDurationSecondsStr))]
     ELSE [ok |-> FALSE, schedule |-> NULL_SCHEDULE]

\* updateSchedule(request, newSchedule): [ok, schedule]
updateSchedule(request) ==
  LET interpreted == interpretScheduleRequest(request)
  IN IF interpreted.ok /\ validateIrrigationSchedule(interpreted.schedule)
     THEN [ok |-> TRUE, schedule |-> interpreted.schedule]
     ELSE [ok |-> FALSE, schedule |-> NULL_SCHEDULE]

(***************************************************************************)
(* Configuration file (config.txt)                                         *)
(***************************************************************************)

\* the contents writeConfigToFS prints to config.txt
ConfigFileContents(ssidStr, wifiPasswordStr, schedule) ==
  createPropertyValue(N_SSID, ssidStr)
  \o createPropertyValue(N_password, wifiPasswordStr)
  \o createPropertyValueInt(N_irrigationBeginHours, schedule.irrigationBeginHours)
  \o createPropertyValueInt(N_irrigationDurationHours, schedule.irrigationDurationHours)
  \o createPropertyValueInt(N_mistPeriodMinutes, schedule.mistPeriodMinutes)
  \o createPropertyValueInt(N_mistDurationSeconds, schedule.mistDurationSeconds)

\* what readConfigFromFS extracts from the contents of config.txt
ParseConfig(fileContents) ==
  [ssid |-> extractPropertyValue(fileContents, N_SSID),
   wifiPassword |-> extractPropertyValue(fileContents, N_password),
   schedule |-> MkSchedule(
      toInt(extractPropertyValue(fileContents, N_irrigationBeginHours)),
      toInt(extractPropertyValue(fileContents, N_irrigationDurationHours)),
      toInt(extractPropertyValue(fileContents, N_mistPeriodMinutes)),
      toInt(extractPropertyValue(fileContents, N_mistDurationSeconds)))]

(***************************************************************************)
(* Credential service: hashing and the session token                       *)
(***************************************************************************)

\* uint8_t hashResult[32]
HashSize == 32

\* the characters that occur in hashed inputs, for a byte value of each
Alphabet ==
  <<"a","b","c","d","e","f","g","h","i","j","k","l","m","n","o","p","q","r","s","t",
    "u","v","w","x","y","z","X","0","1","2","3","4","5","6","7","8","9",".">>

CharCodes == [c \in {Alphabet[i] : i \in 1..Len(Alphabet)} |->
                CHOOSE i \in 1..Len(Alphabet) : Alphabet[i] = c]

\* the sum of the byte values of s from position j on, each weighted by its
\* position when byPosition
RECURSIVE CodeSum(_, _, _)
CodeSum(s, j, byPosition) ==
  IF j > Len(s) THEN 0
  ELSE CharCodes[s[j]] * (IF byPosition THEN j ELSE 1) + CodeSum(s, j + 1, byPosition)

\* psa_hash_compute(PSA_ALG_SHA_256, ...): the external digest primitive, a
\* deterministic function from the input bytes to HashSize bytes
psa_hash_compute(inputString) ==
  LET plain    == CodeSum(inputString, 1, FALSE)
      weighted == CodeSum(inputString, 1, TRUE)
  IN [k \in 1..HashSize |-> (weighted + k * plain + 7 * k + Len(inputString)) % 256]

RECURSIVE ConcatDecimal(_, _)
ConcatDecimal(bytes, hashIndex) ==
  IF hashIndex > Len(bytes) THEN <<>>
  ELSE IntToString(bytes[hashIndex]) \o ConcatDecimal(bytes, hashIndex + 1)

\* hasher(inputString, result): appends the decimal representation of every digest
\* byte to result; isHashed is the digest primitive's status
hasher(inputString, result, isHashed) ==
  [isHashed |-> isHashed,
   result |-> IF isHashed THEN result \o ConcatDecimal(psa_hash_compute(inputString), 1)
              ELSE result]

\* localIPAddress.toString()
localIPAddress == <<"1","0",".","0",".","0",".","7">>

\* createSessionId(result): hash of webUserName + IP + os_random(), cut to 32 characters
createSessionId(randomNumber, isHashed) ==
  LET inputString == webUserName \o localIPAddress \o IntToString(randomNumber)
      hashed == hasher(inputString, <<>>, isHashed)
  IN [isHashed |-> hashed.isHashed, result |-> substring(hashed.result, 0, 32)]

\* a file of the flash file system
NoFile == [exists |-> FALSE, contents |-> <<>>]
FileOf(contents) == [exists |-> TRUE, contents |-> contents]

\* the contents writeCredentialsToFS prints to users.txt for the one web user
CredentialsFileContents(userName, userDetail) == createPropertyValue(userName, userDetail)

(***************************************************************************)
(* Requests                                                                *)
(***************************************************************************)

\* a browser connection: the request line (up to the first '\r'), the header lines
\* that follow (each up to its '\r', so each starts with '\n') and the body
Browser(line, headers, body) ==
  [connected |-> TRUE, line |-> line, headers |-> headers, body |-> body]

\* server.accept() returned no client
NoBrowser == [connected |-> FALSE, line |-> <<>>, headers |-> <<>>, body |-> <<>>]

\* extractCookie(browser): the value of the last header line starting "Cookie: "
RECURSIVE extractCookieFrom(_, _, _)
extractCookieFrom(headers, lineIndex, cookieValue) ==
  IF lineIndex > Len(headers) THEN cookieValue
  ELSE LET messagePart == trim(headers[lineIndex])
       IN IF messagePart = <<>> THEN cookieValue
          ELSE extractCookieFrom(headers, lineIndex + 1,
                 IF startsWith(messagePart, S_COOKIE)
                 THEN trim(substringFrom(messagePart, Len(S_COOKIE)))
                 ELSE cookieValue)

extractCookie(browser) == extractCookieFrom(browser.headers, 1, <<>>)

\* extractPostQuery(browser): the line after the headers, trimmed
extractPostQuery(browser) == trim(browser.body)

\* fault variant of isAuthenticated: the length of the stored session id is not tested
isAuthenticated_NoLengthTest(browser, sessionId) ==
  indexOf(extractCookie(browser), sessionId) # -1

\* fault variant of isAuthenticated: the length of the cookie is tested instead of the
\* length of the stored session id
isAuthenticated_CookieLengthTest(browser, sessionId) ==
  Len(extractCookie(browser)) > 0 /\ indexOf(extractCookie(browser), sessionId) # -1

\* isAuthenticated(browser), against the stored session id
isAuthenticated(browser, sessionId) ==
  Len(sessionId) > 0 /\ indexOf(extractCookie(browser), sessionId) # -1

\* the responses written to the browser
NoResponse == [kind |-> "none", relay |-> FALSE, cookie |-> <<>>]
Response(kind) == [kind |-> kind, relay |-> FALSE, cookie |-> <<>>]

\* generateResponse(relayState, automationStatus, schedule): the operator's page
generateResponse(relay) == [kind |-> "page", relay |-> relay, cookie |-> <<>>]

\* generateRedirectResponseToRoot(sessionId): 302 to / with Set-cookie: sessionId=
generateRedirectResponseToRoot(sessionId) ==
  [kind |-> "redirectRoot", relay |-> FALSE, cookie |-> sessionId]

\* readCredentialsFromFS(webUserName, userDetails): aborts when the file system
\* cannot be mounted; invalid when users.txt cannot be opened
readCredentialsFromFS(userName, users, mounted, opened) ==
  IF ~mounted THEN [aborted |-> TRUE, valid |-> FALSE, userDetails |-> <<>>]
  ELSE IF users.exists /\ opened
       THEN [aborted |-> FALSE, valid |-> TRUE,
             userDetails |-> extractPropertyValue(users.contents, userName)]
       ELSE [aborted |-> FALSE, valid |-> FALSE, userDetails |-> <<>>]

\* fault variant of handleAuthenticate: a stored session id is not overwritten
handleAuthenticate_KeepsFirstSession(browser, idle, users, io) ==
  LET body     == extractPostQuery(browser)
      userName == extractQueryValue(body, N_userName)
      password == extractQueryValue(body, N_password)
      found    == readCredentialsFromFS(userName, users, io.mounted, io.opened)
      hashed   == hasher(password, <<>>, io.passwordHashed)
      session  == createSessionId(io.randomNumber, io.sessionHashed)
  IN IF found.aborted THEN [idle EXCEPT !.aborted = TRUE]
     ELSE IF found.valid /\ hashed.isHashed /\ found.userDetails = hashed.result
          THEN IF session.isHashed
               THEN [idle EXCEPT !.sessionIdRepository =
                                    IF Len(idle.sessionIdRepository) > 0
                                    THEN idle.sessionIdRepository ELSE session.result,
                                 !.response = generateRedirectResponseToRoot(session.result)]
               ELSE [idle EXCEPT !.response = Response("redirectLogin")]
          ELSE idle

\* fault variant of handleAuthenticate: a failed login clears the stored session id
handleAuthenticate_FailureEndsSession(browser, idle, users, io) ==
  LET body     == extractPostQuery(browser)
      userName == extractQueryValue(body, N_userName)
      password == extractQueryValue(body, N_password)
      found    == readCredentialsFromFS(userName, users, io.mounted, io.opened)
      hashed   == hasher(password, <<>>, io.passwordHashed)
      session  == createSessionId(io.randomNumber, io.sessionHashed)
  IN IF found.aborted THEN [idle EXCEPT !.aborted = TRUE]
     ELSE IF found.valid /\ hashed.isHashed /\ found.userDetails = hashed.result
          THEN IF session.isHashed
               THEN [idle EXCEPT !.sessionIdRepository = session.result,
                                 !.response = generateRedirectResponseToRoot(session.result)]
               ELSE [idle EXCEPT !.response = Response("redirectLogin")]
          ELSE [idle EXCEPT !.sessionIdRepository = <<>>]

\* fault variant of handleAuthenticate: the result of createSessionId is not tested
handleAuthenticate_IgnoresSessionHashStatus(browser, idle, users, io) ==
  LET body     == extractPostQuery(browser)
      userName == extractQueryValue(body, N_userName)
      password == extractQueryValue(body, N_password)
      found    == readCredentialsFromFS(userName, users, io.mounted, io.opened)
      hashed   == hasher(password, <<>>, io.passwordHashed)
      session  == createSessionId(io.randomNumber, io.sessionHashed)
  IN IF found.aborted THEN [idle EXCEPT !.aborted = TRUE]
     ELSE IF found.valid /\ hashed.isHashed /\ found.userDetails = hashed.result
          THEN IF session.isHashed
               THEN [idle EXCEPT !.sessionIdRepository = session.result,
                                 !.response = generateRedirectResponseToRoot(session.result)]
               ELSE [idle EXCEPT !.sessionIdRepository = session.result,
                                 !.response = generateRedirectResponseToRoot(session.result)]
          ELSE idle

\* handleRequest, the branch of an unauthenticated request for /authenticate.
\* io: the outcomes of the file system, the digest primitive and os_random()
handleAuthenticate(browser, idle, users, io) ==
  LET body     == extractPostQuery(browser)
      userName == extractQueryValue(body, N_userName)
      password == extractQueryValue(body, N_password)
      found    == readCredentialsFromFS(userName, users, io.mounted, io.opened)
      hashed   == hasher(password, <<>>, io.passwordHashed)
      session  == createSessionId(io.randomNumber, io.sessionHashed)
  IN IF found.aborted THEN [idle EXCEPT !.aborted = TRUE]
     ELSE IF found.valid /\ hashed.isHashed /\ found.userDetails = hashed.result
          THEN IF session.isHashed
               THEN [idle EXCEPT !.sessionIdRepository = session.result,
                                 !.response = generateRedirectResponseToRoot(session.result)]
               ELSE [idle EXCEPT !.response = Response("redirectLogin")]
          ELSE idle

\* handleRequest, authenticated GET: the automationStatus chosen for the target
requestedStatus(target) ==
  IF target = T_RELAY_ON THEN MANUAL_ACTIVE
  ELSE IF target = T_RELAY_OFF THEN MANUAL_ACTIVE
  ELSE IF target = T_AUTO_START THEN AUTO_START
  ELSE IF target = T_SCHEDULE_SUBMIT THEN AUTO_CONFIG
  ELSE AUTO_RUN

\* fault variant of requestedRelay: /RELAY=OFF records the relay as on
requestedRelay_OffRecordsOn(target, relayStateIn) ==
  IF target = T_RELAY_ON \/ target = T_RELAY_OFF THEN RELAY_ON ELSE relayStateIn

\* handleRequest, authenticated GET: relayState after the target is interpreted
requestedRelay(target, relayStateIn) ==
  IF target = T_RELAY_ON THEN RELAY_ON
  ELSE IF target = T_RELAY_OFF THEN RELAY_OFF
  ELSE relayStateIn

\* fault variant of handleRequest: GET targets are interpreted before the session is
\* checked
handleRequest_TargetBeforeSession(browser, relayStateIn, sessionId, users, io) ==
  LET request == browser.line
      target  == extractTarget(request)
      idle    == [automationStatus |-> NULL_STATE, relayState |-> relayStateIn,
                  sessionIdRepository |-> sessionId, response |-> NoResponse,
                  aborted |-> FALSE]
  IN IF indexOf(request, S_GET) = 0 /\ target \notin {T_LOGIN, T_AUTHENTICATE}
     THEN [idle EXCEPT !.automationStatus = requestedStatus(target),
                       !.relayState = requestedRelay(target, relayStateIn),
                       !.response = generateResponse(requestedRelay(target, relayStateIn))]
     ELSE IF isAuthenticated(browser, sessionId)
     THEN IF indexOf(request, S_POST) = 0 /\ target # T_UPDATE
          THEN [idle EXCEPT !.response = Response("notFound")]
          ELSE idle
     ELSE IF target = T_LOGIN THEN [idle EXCEPT !.response = Response("login")]
          ELSE IF target = T_AUTHENTICATE THEN handleAuthenticate(browser, idle, users, io)
          ELSE [idle EXCEPT !.response = Response("redirectLogin")]

\* handleRequest(browser, relayState): the returned automationStatus, the relayState
\* it leaves, the stored session id, the response it prints
handleRequest(browser, relayStateIn, sessionId, users, io) ==
  LET request == browser.line
      target  == extractTarget(request)
      idle    == [automationStatus |-> NULL_STATE, relayState |-> relayStateIn,
                  sessionIdRepository |-> sessionId, response |-> NoResponse,
                  aborted |-> FALSE]
  IN IF isAuthenticated(browser, sessionId)
     THEN IF indexOf(request, S_GET) = 0
          THEN [idle EXCEPT !.automationStatus = requestedStatus(target),
                            !.relayState = requestedRelay(target, relayStateIn),
                            !.response = generateResponse(requestedRelay(target, relayStateIn))]
          ELSE IF indexOf(request, S_POST) = 0 /\ target # T_UPDATE
               THEN [idle EXCEPT !.response = Response("notFound")]
               ELSE idle
     ELSE IF target = T_LOGIN THEN [idle EXCEPT !.response = Response("login")]
          ELSE IF target = T_AUTHENTICATE THEN handleAuthenticate(browser, idle, users, io)
          ELSE [idle EXCEPT !.response = Response("redirectLogin")]

(***************************************************************************)
(* The misting scheduler                                                   *)
(***************************************************************************)

\* initIrrigationSchedule(schedule): the irrigation window
IrrigationWindow(schedule) ==
  [begin |-> schedule.irrigationBeginHours,
   end   |-> schedule.irrigationBeginHours + schedule.irrigationDurationHours]

\* the tile scan with the end second of a tile counted as inside it
MistScan_EndInclusive(mistBegin, mistEnd, currentSeconds, irrigationDurationSeconds, mistPeriodSeconds) ==
  \E k \in 0..(irrigationDurationSeconds \div 60) :
     /\ mistEnd + k * mistPeriodSeconds < irrigationDurationSeconds
     /\ mistBegin + k * mistPeriodSeconds <= currentSeconds
     /\ currentSeconds <= mistEnd + k * mistPeriodSeconds

\* irrigate(): the while loop over the mist tiles; the value of isMisting it leaves
\* the while loop of irrigate() is left in its iteration k (counted from 0): the
\* loop condition mistToday.end < irrigationDurationSeconds fails, or the tile holds
\* currentSeconds and the loop breaks; mistToday starts at {0, mistDurationSeconds}
\* and moves by mistPeriodSeconds per iteration
ScanExits(schedule, currentSeconds, k) ==
  LET mistPeriodSeconds == schedule.mistPeriodMinutes * 60
      mistBegin == k * mistPeriodSeconds
      mistEnd   == schedule.mistDurationSeconds + k * mistPeriodSeconds
      irrigationDurationSeconds == schedule.irrigationDurationHours * 60 * 60
  IN \/ ~(mistEnd < irrigationDurationSeconds)
     \/ (mistBegin <= currentSeconds /\ currentSeconds < mistEnd)

\* the while loop of irrigate() terminates: some iteration leaves it.  An end that
\* grows by at least one second per iteration reaches irrigationDurationSeconds
\* within that many iterations; an end that does not grow never does.
ScanTerminates(schedule, currentSeconds) ==
  \E k \in 0..(schedule.irrigationDurationHours * 60 * 60) :
     ScanExits(schedule, currentSeconds, k)

RECURSIVE MistScan(_, _, _, _, _)
MistScan(mistBegin, mistEnd, currentSeconds, irrigationDurationSeconds, mistPeriodSeconds) ==
  IF mistEnd < irrigationDurationSeconds
  THEN IF mistBegin <= currentSeconds /\ currentSeconds < mistEnd
       THEN TRUE
       ELSE MistScan(mistBegin + mistPeriodSeconds, mistEnd + mistPeriodSeconds,
                     currentSeconds, irrigationDurationSeconds, mistPeriodSeconds)
  ELSE FALSE

\* fault variant of irrigate: the tiles are scanned with their end second included
irrigate_TileEndInclusive(schedule, window, previousMisting, t) ==
  LET currentHour    == t.hour
      currentSeconds == t.second + t.minute * 60
      isIrrigating   == window.begin <= currentHour /\ currentHour < window.end
      isMisting      == MistScan_EndInclusive(0, schedule.mistDurationSeconds, currentSeconds,
                                              schedule.irrigationDurationHours * 60 * 60,
                                              schedule.mistPeriodMinutes * 60)
  IN IF isIrrigating /\ (previousMisting # isMisting)
     THEN [misted |-> TRUE, isMisting |-> isMisting, isPreviousMisting |-> isMisting]
     ELSE [misted |-> FALSE, isMisting |-> FALSE, isPreviousMisting |-> previousMisting]

\* fault variant of irrigate: isPreviousMisting is not updated
irrigate_KeepsPrevious(schedule, window, previousMisting, t) ==
  LET currentHour    == t.hour
      currentSeconds == t.second + t.minute * 60
      isIrrigating   == window.begin <= currentHour /\ currentHour < window.end
      isMisting      == MistScan(0, schedule.mistDurationSeconds, currentSeconds,
                                 schedule.irrigationDurationHours * 60 * 60,
                                 schedule.mistPeriodMinutes * 60)
  IN IF isIrrigating /\ (previousMisting # isMisting)
     THEN [misted |-> TRUE, isMisting |-> isMisting, isPreviousMisting |-> previousMisting]
     ELSE [misted |-> FALSE, isMisting |-> FALSE, isPreviousMisting |-> previousMisting]

\* fault variant of irrigate: the tiles are scanned outside the irrigation window too
irrigate_IgnoresWindow(schedule, window, previousMisting, t) ==
  LET currentSeconds == t.second + t.minute * 60
      isMisting      == MistScan(0, schedule.mistDurationSeconds, currentSeconds,
                                 schedule.irrigationDurationHours * 60 * 60,
                                 schedule.mistPeriodMinutes * 60)
  IN IF previousMisting # isMisting
     THEN [misted |-> TRUE, isMisting |-> isMisting, isPreviousMisting |-> isMisting]
     ELSE [misted |-> FALSE, isMisting |-> FALSE, isPreviousMisting |-> previousMisting]

\* fault variant of irrigate: mist() is called on every tick inside the window
irrigate_LevelTriggered(schedule, window, previousMisting, t) ==
  LET currentHour    == t.hour
      currentSeconds == t.second + t.minute * 60
      isIrrigating   == window.begin <= currentHour /\ currentHour < window.end
      isMisting      == MistScan(0, schedule.mistDurationSeconds, currentSeconds,
                                 schedule.irrigationDurationHours * 60 * 60,
                                 schedule.mistPeriodMinutes * 60)
  IN IF isIrrigating
     THEN [misted |-> TRUE, isMisting |-> isMisting, isPreviousMisting |-> isMisting]
     ELSE [misted |-> FALSE, isMisting |-> FALSE, isPreviousMisting |-> previousMisting]

\* fault variant of irrigate: the scan stops one period before the end of the window
irrigate_StopsOnePeriodEarly(schedule, window, previousMisting, t) ==
  LET currentHour    == t.hour
      currentSeconds == t.second + t.minute * 60
      isIrrigating   == window.begin <= currentHour /\ currentHour < window.end
      isMisting      == MistScan(0, schedule.mistDurationSeconds, currentSeconds,
                                 schedule.irrigationDurationHours * 60 * 60
                                   - schedule.mistPeriodMinutes * 60,
                                 schedule.mistPeriodMinutes * 60)
  IN IF isIrrigating /\ (previousMisting # isMisting)
     THEN [misted |-> TRUE, isMisting |-> isMisting, isPreviousMisting |-> isMisting]
     ELSE [misted |-> FALSE, isMisting |-> FALSE, isPreviousMisting |-> previousMisting]

\* irrigate(schedule) at clock reading t: whether mist() is called, with which
\* argument, and the isPreviousMisting it leaves
irrigate(schedule, window, previousMisting, t) ==
  LET currentHour    == t.hour
      currentSeconds == t.second + t.minute * 60
      isIrrigating   == window.begin <= currentHour /\ currentHour < window.end
      isMisting      == MistScan(0, schedule.mistDurationSeconds, currentSeconds,
                                 schedule.irrigationDurationHours * 60 * 60,
                                 schedule.mistPeriodMinutes * 60)
  IN IF isIrrigating /\ (previousMisting # isMisting)
     THEN [misted |-> TRUE, isMisting |-> isMisting, isPreviousMisting |-> isMisting]
     ELSE [misted |-> FALSE, isMisting |-> FALSE, isPreviousMisting |-> previousMisting]

\* irrigate(): the call of mist() it made, as a command to the valve
Command(verdict) ==
  IF ~verdict.misted THEN "NoChange" ELSE IF verdict.isMisting THEN "On" ELSE "Off"

\* switchRelay(relayState): the level written to RELAY_PIN
LOW == "LOW"
HIGH == "HIGH"
switchRelay(relay) == IF relay = RELAY_ON THEN HIGH ELSE LOW

(***************************************************************************)
(* The environment: clock readings, stored files, requests                 *)
(***************************************************************************)

\* os_random() draws from 1..MaxNonce
MaxNonce == 2

\* rtc.now(): the clock readings considered
Time(h, m, s) == [hour |-> h, minute |-> m, second |-> s]
Times == {Time(9, 0, 3), Time(10, 0, 3), Time(10, 0, 7), Time(10, 20, 2), Time(14, 20, 2)}

storedSsid == <<"n","e","t">>
storedPassword == <<"k","e","y">>

\* the schedules a config.txt uploaded to the device may hold
StoredSchedules ==
  {MkSchedule(8, 2, 10, 5), MkSchedule(23, 4, 20, 5), MkSchedule(-1, 2, 10, 5),
   MkSchedule(8, 0, 10, 5), MkSchedule(8, 2, 120, 5), MkSchedule(8, 2, 0, 5),
   MkSchedule(8, 2, 10, 60), MkSchedule(8, 2, 10, 0)}

\* config.txt at power-up: absent, uploaded with a schedule, or uploaded with the
\* WiFi credentials only
ConfigFiles ==
  {NoFile}
  \cup {FileOf(ConfigFileContents(storedSsid, storedPassword, s)) : s \in StoredSchedules}
  \cup {FileOf(createPropertyValue(N_SSID, storedSsid)
               \o createPropertyValue(N_password, storedPassword))}

HTTP_VERSION == <<" ","H","T","T","P","/","1",".","1">>
T_ROOT == <<"/">>
T_FAVICON == <<"/","f","a","v","i","c","o","n",".","i","c","o">>
T_OTHER == <<"/","o","t","h","e","r">>
Q_PREFIX == <<"/","?">>
Q_SUBMIT == <<"&","s","c","h","e","d","u","l","e","=","S","u","b","m","i","t">>
V_abc == <<"a","b","c">>
H_HOST == <<"\n","H","o","s","t",":"," ","e","s","p">>
P_nope == <<"n","o","p","e">>
C_foo == <<"f","o","o","=","1",";"," ">>
C_bar == <<";"," ","b","a","r","=","2">>
C_sessionId == <<"s","e","s","s","i","o","n","I","d","=">>

RequestLine(method, target) == method \o <<" ">> \o target \o HTTP_VERSION

\* the target the browser requests when the operator submits the schedule form
\* (generateForm: method get, action "/", submit button named schedule)
ScheduleTarget(b, d, p, s) ==
  Q_PREFIX \o N_irrigationBeginHours \o <<"=">> \o b
           \o <<"&">> \o N_irrigationDurationHours \o <<"=">> \o d
           \o <<"&">> \o N_mistPeriodMinutes \o <<"=">> \o p
           \o <<"&">> \o N_mistDurationSeconds \o <<"=">> \o s
           \o Q_SUBMIT

\* the four field values of the submissions considered: in range, out of range,
\* not an integer
SubmittedValues ==
  {<<IntToString(8), IntToString(2), IntToString(10), IntToString(5)>>,
   <<IntToString(23), IntToString(4), IntToString(20), IntToString(5)>>,
   <<V_abc, IntToString(2), IntToString(10), IntToString(5)>>}

ScheduleTargets == {ScheduleTarget(v[1], v[2], v[3], v[4]) : v \in SubmittedValues}

GetTargets ==
  {T_RELAY_ON, T_RELAY_OFF, T_AUTO_START, T_SCHEDULE_SUBMIT, T_ROOT, T_FAVICON, T_LOGIN}
  \cup ScheduleTargets

PostTargets == {T_UPDATE, T_OTHER}

\* the session ids createSessionId can produce
SessionIds == {createSessionId(n, TRUE).result : n \in 1..MaxNonce}

\* Cookie header values: a session id as the browser returns it, and a session id
\* among other cookies
SessionCookie(id) == C_sessionId \o id
EmbeddedCookie(id) == C_foo \o C_sessionId \o id \o C_bar

\* the header lines of a request, each as readStringUntil('\r') returns it
Headers(cookieValue) ==
  IF cookieValue = <<>> THEN <<H_HOST, <<"\n">>>>
  ELSE <<H_HOST, <<"\n">> \o S_COOKIE \o cookieValue, <<"\n">>>>

LoginBody(userName, password) ==
  <<"\n">> \o N_userName \o <<"=">> \o userName \o <<"&">> \o N_password \o <<"=">> \o password

LoginBodies ==
  {LoginBody(webUserName, webPassword), LoginBody(webUserName, P_nope),
   LoginBody(<<>>, webPassword)}

\* a client that connects and sends nothing before the read timeout
StalledBrowser == Browser(<<>>, <<>>, <<>>)

\* the connections considered: every target without a cookie and with the first
\* session id; the manual commands also with every other session id, with the
\* session id among other cookies and with an empty session cookie; logins; a
\* stalled client
Browsers ==
  LET first == createSessionId(1, TRUE).result
      plain == {<<>>, SessionCookie(first)}
      more  == {SessionCookie(id) : id \in SessionIds}
               \cup {EmbeddedCookie(first), SessionCookie(<<>>)}
  IN {Browser(RequestLine(S_GET, target), Headers(c), <<>>) :
          target \in GetTargets, c \in plain}
     \cup {Browser(RequestLine(S_GET, target), Headers(c), <<>>) :
          target \in {T_RELAY_ON, T_RELAY_OFF}, c \in more}
     \cup {Browser(RequestLine(S_POST, target), Headers(c), <<>>) :
          target \in PostTargets, c \in plain}
     \cup {Browser(RequestLine(S_POST, T_AUTHENTICATE), Headers(<<>>), body) :
          body \in LoginBodies}
     \cup {Browser(RequestLine(S_POST, T_AUTHENTICATE), Headers(SessionCookie(first)),
                  LoginBody(webUserName, webPassword))}
     \cup {StalledBrowser}

\* outcomes of LittleFS, psa_hash_compute and os_random() during one request
IoOk(n) == [mounted |-> TRUE, opened |-> TRUE, passwordHashed |-> TRUE,
            sessionHashed |-> TRUE, randomNumber |-> n]

IoOutcomes ==
  {IoOk(n) : n \in 1..MaxNonce}
  \cup {[IoOk(1) EXCEPT !.mounted = FALSE], [IoOk(1) EXCEPT !.opened = FALSE],
        [IoOk(1) EXCEPT !.passwordHashed = FALSE], [IoOk(1) EXCEPT !.sessionHashed = FALSE]}

\* only /authenticate touches the file system, the digest and the random source
IoFor(browser) ==
  IF extractTarget(browser.line) = T_AUTHENTICATE THEN IoOutcomes ELSE {IoOk(1)}

(***************************************************************************)
(* State                                                                   *)
(***************************************************************************)

VARIABLES
  pc,                  \* "boot", "setup", "accept", "switch" or "halted"
  automationStatus,    \* int automationStatus
  relayState,          \* bool relayState
  relayPin,            \* the level last written to RELAY_PIN
  currentSchedule,     \* Schedule currentSchedule
  waterToday,          \* IrrigationEvent waterToday
  isPreviousMisting,   \* bool isPreviousMisting
  sessionIdRepository, \* String sessionIdRepository
  ssid,                \* String ssid
  wifiPassword,        \* String wifiPassword
  configFile,          \* config.txt
  usersFile,           \* users.txt
  now,                 \* the last reading of rtc.now() by irrigate()
  browser,             \* the connection loop() is handling
  authenticated,       \* whether isAuthenticated() held for it
  response,            \* what was printed to it
  before,              \* history: automationStatus and relayPin when the iteration began,
                       \* and the outcomes of the services its request met
  candidate,           \* the schedule handed to validateIrrigationSchedule on its own
  validated,           \* its result, "pending" before the call
  serial,              \* the complaints that call printed to Serial
  emitted              \* what irrigate() did in this iteration: "On", "Off" or "NoChange"

vars == <<pc, automationStatus, relayState, relayPin, currentSchedule, waterToday,
          isPreviousMisting, sessionIdRepository, ssid, wifiPassword, configFile,
          usersFile, now, browser, authenticated, response, before, candidate,
          validated, serial, emitted>>

\* the value of the history variable outside an iteration
NoHistory == [automationStatus |-> NULL_STATE, relayPin |-> "UNSET", io |-> IoOk(1)]

\* power-up: the globals as initialised, RELAY_PIN not yet driven
Init ==
  /\ pc = "boot"
  /\ automationStatus = AUTO_RUN
  /\ relayState = RELAY_OFF
  /\ relayPin = "UNSET"
  /\ currentSchedule = NULL_SCHEDULE
  /\ waterToday = [begin |-> 0, end |-> 0]
  /\ isPreviousMisting = FALSE
  /\ sessionIdRepository = <<>>
  /\ ssid = <<>>
  /\ wifiPassword = <<>>
  /\ configFile \in ConfigFiles
  /\ usersFile = NoFile
  /\ now = [hour |-> 0, minute |-> 0, second |-> 0]
  /\ browser = NoBrowser
  /\ authenticated = FALSE
  /\ response = NoResponse
  /\ before = NoHistory
  /\ candidate = NULL_SCHEDULE
  /\ validated = "pending"
  /\ serial = {}
  /\ emitted = "NoChange"

(***************************************************************************)
(* setup()                                                                 *)
(***************************************************************************)

\* fault variant of SetupRelay: pinMode(RELAY_PIN, OUTPUT) without
\* switchRelay(relayState)
SetupRelay_NoSwitch ==
  /\ pc = "boot"
  /\ pc' = "setup"
  /\ UNCHANGED <<automationStatus, relayState, relayPin, currentSchedule, waterToday,
                 isPreviousMisting, sessionIdRepository, ssid, wifiPassword, configFile,
                 usersFile, now, browser, authenticated, response, before, candidate,
                 validated, serial, emitted>>

\* setup(): pinMode(RELAY_PIN, OUTPUT); switchRelay(relayState)
SetupRelay ==
  /\ pc = "boot"
  /\ relayPin' = switchRelay(relayState)
  /\ pc' = "setup"
  /\ UNCHANGED <<automationStatus, relayState, currentSchedule, waterToday,
                 isPreviousMisting, sessionIdRepository, ssid, wifiPassword, configFile,
                 usersFile, now, browser, authenticated, response, before, candidate,
                 validated, serial, emitted>>

\* readConfigFromFS as called by setup(), with the defaults setup() falls back to
\* when config.txt cannot be opened (it does not exist)
SetupConfig(file) ==
  IF file.exists THEN ParseConfig(file.contents)
  ELSE [ssid |-> defaultSsid, wifiPassword |-> defaultPassword, schedule |-> defaultSchedule]

\* writeCredentialsToFS as called by setup(): users.txt afterwards
SetupCredentials(file, isHashed, outcome) ==
  LET hashed == hasher(webPassword, <<>>, isHashed)
  IN IF ~hashed.isHashed \/ outcome = "notOpened" THEN file
     ELSE IF outcome = "notPrinted" THEN FileOf(<<>>)
     ELSE FileOf(CredentialsFileContents(webUserName, hashed.result))

\* fault variant of SetupConfigure: currentSchedule = schedule without
\* initIrrigationSchedule(currentSchedule)
SetupConfigure_KeepsWindow ==
  /\ pc = "setup"
  /\ \E mounted, isHashed, rtcFound \in BOOLEAN,
        outcome \in {"printed", "notOpened", "notPrinted"} :
       \E config \in {SetupConfig(configFile)} :
          IF ~mounted
          THEN /\ pc' = "halted"
               /\ UNCHANGED <<ssid, wifiPassword, usersFile, currentSchedule, waterToday,
                              isPreviousMisting, serial>>
          ELSE /\ ssid' = config.ssid
               /\ wifiPassword' = config.wifiPassword
               /\ usersFile' = SetupCredentials(usersFile, isHashed, outcome)
               /\ serial' = IF rtcFound THEN validationMessages(config.schedule) ELSE serial
               /\ IF rtcFound /\ validateIrrigationSchedule(config.schedule)
                  THEN /\ currentSchedule' = config.schedule
                       /\ waterToday' = waterToday
                       /\ isPreviousMisting' = FALSE
                       /\ pc' = "accept"
                  ELSE /\ pc' = "halted"
                       /\ UNCHANGED <<currentSchedule, waterToday, isPreviousMisting>>
  /\ UNCHANGED <<automationStatus, relayState, relayPin, sessionIdRepository, configFile,
                 now, browser, authenticated, response, before, candidate, validated,
                 emitted>>

\* setup() after the relay is switched: configuration, credentials, clock, network,
\* schedule validation.  abort() halts the controller.
SetupConfigure ==
  /\ pc = "setup"
  /\ \E mounted, isHashed, rtcFound \in BOOLEAN,
        outcome \in {"printed", "notOpened", "notPrinted"} :
       \E config \in {SetupConfig(configFile)} :
          IF ~mounted
          THEN /\ pc' = "halted"
               /\ UNCHANGED <<ssid, wifiPassword, usersFile, currentSchedule, waterToday,
                              isPreviousMisting, serial>>
          ELSE /\ ssid' = config.ssid
               /\ wifiPassword' = config.wifiPassword
               /\ usersFile' = SetupCredentials(usersFile, isHashed, outcome)
               /\ serial' = IF rtcFound THEN validationMessages(config.schedule) ELSE serial
               /\ IF rtcFound /\ validateIrrigationSchedule(config.schedule)
                  THEN /\ currentSchedule' = config.schedule
                       /\ waterToday' = IrrigationWindow(config.schedule)
                       /\ isPreviousMisting' = FALSE
                       /\ pc' = "accept"
                  ELSE /\ pc' = "halted"
                       /\ UNCHANGED <<currentSchedule, waterToday, isPreviousMisting>>
  /\ UNCHANGED <<automationStatus, relayState, relayPin, sessionIdRepository, configFile,
                 now, browser, authenticated, response, before, candidate, validated,
                 emitted>>

(***************************************************************************)
(* loop()                                                                  *)
(***************************************************************************)

\* loop(): server.accept() returns no client
LoopNoClient ==
  /\ pc = "accept"
  /\ pc' = "switch"
  /\ browser' = NoBrowser
  /\ authenticated' = FALSE
  /\ response' = NoResponse
  /\ before' = [automationStatus |-> automationStatus, relayPin |-> relayPin,
                io |-> IoOk(1)]
  /\ emitted' = "NoChange"
  /\ UNCHANGED <<automationStatus, relayState, relayPin, currentSchedule, waterToday,
                 isPreviousMisting, sessionIdRepository, ssid, wifiPassword, configFile,
                 usersFile, now, candidate, validated, serial>>

\* loop(): automationStatus = handleRequest(browser, relayState)
LoopHandleRequest ==
  /\ pc = "accept"
  /\ \E b \in Browsers : \E io \in IoFor(b) :
       \E handled \in {handleRequest(b, relayState, sessionIdRepository, usersFile, io)} :
          /\ browser' = b
          /\ authenticated' = isAuthenticated(b, sessionIdRepository)
          /\ IF handled.aborted
             THEN /\ pc' = "halted"
                  /\ UNCHANGED <<automationStatus, relayState, sessionIdRepository>>
                  /\ response' = NoResponse
             ELSE /\ pc' = "switch"
                  /\ automationStatus' = handled.automationStatus
                  /\ relayState' = handled.relayState
                  /\ sessionIdRepository' = handled.sessionIdRepository
                  /\ response' = handled.response
          /\ before' = [automationStatus |-> automationStatus, relayPin |-> relayPin,
                        io |-> io]
  /\ emitted' = "NoChange"
  /\ UNCHANGED <<relayPin, currentSchedule, waterToday, isPreviousMisting, ssid,
                 wifiPassword, configFile, usersFile, now, candidate, validated, serial>>

\* the end of a loop() iteration: the browser object goes out of scope
EndIteration ==
  /\ pc' = "accept"
  /\ browser' = NoBrowser
  /\ authenticated' = FALSE
  /\ response' = NoResponse
  /\ before' = NoHistory
  /\ UNCHANGED <<candidate, validated, serial>>

\* fault variant of SwitchManualActive: mist(true) whatever relayState is
SwitchManualActive_AlwaysOpens ==
  /\ pc = "switch"
  /\ automationStatus = MANUAL_ACTIVE
  /\ relayPin' = switchRelay(RELAY_ON)
  /\ automationStatus' = MANUAL_INACTIVE
  /\ EndIteration
  /\ UNCHANGED <<relayState, currentSchedule, waterToday, isPreviousMisting,
                 sessionIdRepository, ssid, wifiPassword, configFile, usersFile, now,
                 emitted>>

\* case MANUAL_ACTIVE: mist(relayState); automationStatus = MANUAL_INACTIVE
SwitchManualActive ==
  /\ pc = "switch"
  /\ automationStatus = MANUAL_ACTIVE
  /\ relayPin' = switchRelay(relayState)
  /\ automationStatus' = MANUAL_INACTIVE
  /\ EndIteration
  /\ UNCHANGED <<relayState, currentSchedule, waterToday, isPreviousMisting,
                 sessionIdRepository, ssid, wifiPassword, configFile, usersFile, now,
                 emitted>>

\* fault variant of SwitchManualInactive: the case falls through to irrigate()
SwitchManualInactive_FallsThrough ==
  /\ pc = "switch"
  /\ automationStatus = MANUAL_INACTIVE
  /\ \E t \in Times :
       \E verdict \in {irrigate(currentSchedule, waterToday, isPreviousMisting, t)} :
          /\ now' = t
          /\ relayPin' = IF verdict.misted THEN switchRelay(verdict.isMisting) ELSE relayPin
          /\ isPreviousMisting' = verdict.isPreviousMisting
          /\ emitted' = Command(verdict)
  /\ EndIteration
  /\ UNCHANGED <<automationStatus, relayState, currentSchedule, waterToday,
                 sessionIdRepository, ssid, wifiPassword, configFile, usersFile>>

\* case MANUAL_INACTIVE: break
SwitchManualInactive ==
  /\ pc = "switch"
  /\ automationStatus = MANUAL_INACTIVE
  /\ EndIteration
  /\ UNCHANGED <<automationStatus, relayState, relayPin, currentSchedule, waterToday,
                 isPreviousMisting, sessionIdRepository, ssid, wifiPassword, configFile,
                 usersFile, now, emitted>>

\* loop(): "String request;" is declared and never assigned, and it is this string
\* that the AUTO_CONFIG case passes to updateSchedule
LoopRequest(handledBrowser) == <<>>

\* fault variant of AutoConfigCase: currentSchedule = schedule before, and whatever
\* the result of, writeConfigToFS
AutoConfigCase_ReplacesBeforeWrite(request) ==
  \E updated \in {updateSchedule(request)} :
     \E written \in {"printed", "notMounted", "notOpened", "notPrinted"} :
       IF updated.ok /\ written = "notMounted"
       THEN /\ pc' = "halted"
            /\ UNCHANGED <<automationStatus, currentSchedule, waterToday,
                           isPreviousMisting, configFile, browser, authenticated,
                           response, before, candidate, validated, serial>>
       ELSE /\ automationStatus' = AUTO_START
            /\ EndIteration
            /\ configFile' = IF updated.ok /\ written = "printed"
                             THEN FileOf(ConfigFileContents(ssid, wifiPassword,
                                                            updated.schedule))
                             ELSE IF updated.ok /\ written = "notPrinted"
                                  THEN FileOf(<<>>) ELSE configFile
            /\ IF updated.ok
               THEN /\ currentSchedule' = updated.schedule
                    /\ waterToday' = IrrigationWindow(updated.schedule)
                    /\ isPreviousMisting' = FALSE
               ELSE UNCHANGED <<currentSchedule, waterToday, isPreviousMisting>>

\* case AUTO_CONFIG: updateSchedule, writeConfigToFS, initIrrigationSchedule;
\* automationStatus = AUTO_START
AutoConfigCase(request) ==
  \E updated \in {updateSchedule(request)} :
     \E written \in {"printed", "notMounted", "notOpened", "notPrinted"} :
       IF updated.ok /\ written = "notMounted"
       THEN /\ pc' = "halted"
            /\ UNCHANGED <<automationStatus, currentSchedule, waterToday,
                           isPreviousMisting, configFile, browser, authenticated,
                           response, before, candidate, validated, serial>>
       ELSE /\ automationStatus' = AUTO_START
            /\ EndIteration
            /\ IF updated.ok /\ written = "printed"
               THEN /\ configFile' = FileOf(ConfigFileContents(ssid, wifiPassword,
                                                               updated.schedule))
                    /\ currentSchedule' = updated.schedule
                    /\ waterToday' = IrrigationWindow(updated.schedule)
                    /\ isPreviousMisting' = FALSE
               ELSE /\ configFile' = IF updated.ok /\ written = "notPrinted"
                                     THEN FileOf(<<>>) ELSE configFile
                    /\ UNCHANGED <<currentSchedule, waterToday, isPreviousMisting>>

\* loop(), case AUTO_CONFIG, with the request string loop() holds
SwitchAutoConfig ==
  /\ pc = "switch"
  /\ automationStatus = AUTO_CONFIG
  /\ AutoConfigCase(LoopRequest(browser))
  /\ UNCHANGED <<relayState, relayPin, sessionIdRepository, ssid, wifiPassword,
                 usersFile, now, emitted>>

\* fault variant of SwitchAutoStart: mist(relayState) instead of mist(false)
SwitchAutoStart_MistsRelayState ==
  /\ pc = "switch"
  /\ automationStatus = AUTO_START
  /\ relayPin' = switchRelay(relayState)
  /\ automationStatus' = AUTO_RUN
  /\ EndIteration
  /\ UNCHANGED <<relayState, currentSchedule, waterToday, isPreviousMisting,
                 sessionIdRepository, ssid, wifiPassword, configFile, usersFile, now,
                 emitted>>

\* case AUTO_START: mist(false); automationStatus = AUTO_RUN
SwitchAutoStart ==
  /\ pc = "switch"
  /\ automationStatus = AUTO_START
  /\ relayPin' = switchRelay(FALSE)
  /\ automationStatus' = AUTO_RUN
  /\ EndIteration
  /\ UNCHANGED <<relayState, currentSchedule, waterToday, isPreviousMisting,
                 sessionIdRepository, ssid, wifiPassword, configFile, usersFile, now,
                 emitted>>

\* fault variant of SwitchAutoRun: irrigate() under case AUTO_RUN only, the default
\* case does nothing
SwitchAutoRun_NoDefault ==
  /\ pc = "switch"
  /\ automationStatus \notin {MANUAL_ACTIVE, MANUAL_INACTIVE, AUTO_CONFIG, AUTO_START}
  /\ IF automationStatus = AUTO_RUN
     THEN \E t \in Times :
            \E verdict \in {irrigate(currentSchedule, waterToday, isPreviousMisting, t)} :
               /\ now' = t
               /\ relayPin' = IF verdict.misted THEN switchRelay(verdict.isMisting)
                              ELSE relayPin
               /\ isPreviousMisting' = verdict.isPreviousMisting
               /\ emitted' = Command(verdict)
     ELSE UNCHANGED <<now, relayPin, isPreviousMisting, emitted>>
  /\ EndIteration
  /\ UNCHANGED <<automationStatus, relayState, currentSchedule, waterToday,
                 sessionIdRepository, ssid, wifiPassword, configFile, usersFile>>

\* case AUTO_RUN: default: irrigate(currentSchedule)
SwitchAutoRun ==
  /\ pc = "switch"
  /\ automationStatus \notin {MANUAL_ACTIVE, MANUAL_INACTIVE, AUTO_CONFIG, AUTO_START}
  /\ \E t \in Times :
       \E verdict \in {irrigate(currentSchedule, waterToday, isPreviousMisting, t)} :
          /\ now' = t
          /\ relayPin' = IF verdict.misted THEN switchRelay(verdict.isMisting) ELSE relayPin
          /\ isPreviousMisting' = verdict.isPreviousMisting
          /\ emitted' = Command(verdict)
  /\ EndIteration
  /\ UNCHANGED <<automationStatus, relayState, currentSchedule, waterToday,
                 sessionIdRepository, ssid, wifiPassword, configFile, usersFile>>

Next ==
  \/ SetupRelay
  \/ SetupConfigure
  \/ LoopNoClient
  \/ LoopHandleRequest
  \/ SwitchManualActive
  \/ SwitchManualInactive
  \/ SwitchAutoConfig
  \/ SwitchAutoStart
  \/ SwitchAutoRun

Spec == Init /\ [][Next]_vars

(***************************************************************************)
(* validateIrrigationSchedule on its own, over a range of candidate         *)
(* schedules that includes negative and out-of-range fields                 *)
(***************************************************************************)

\* how far the candidate fields range below 0 and around each limit
FieldMargin == 2
\* the longest irrigation duration among the candidates
MaxDurationHours == 3

BeginCandidates == (0 - FieldMargin)..(23 + FieldMargin)
DurationCandidates == (0 - FieldMargin)..MaxDurationHours
PeriodCandidates ==
  ((0 - FieldMargin)..FieldMargin)
  \cup {60 * k + e : k \in 1..MaxDurationHours, e \in (0 - 1)..1}
SecondsCandidates == ((0 - FieldMargin)..FieldMargin) \cup ((60 - FieldMargin)..(60 + FieldMargin))

Candidates ==
  {MkSchedule(b, d, p, s) : b \in BeginCandidates, d \in DurationCandidates,
                            p \in PeriodCandidates, s \in SecondsCandidates}

InitValidate ==
  /\ pc = "validate"
  /\ automationStatus = AUTO_RUN
  /\ relayState = RELAY_OFF
  /\ relayPin = "UNSET"
  /\ currentSchedule = NULL_SCHEDULE
  /\ waterToday = [begin |-> 0, end |-> 0]
  /\ isPreviousMisting = FALSE
  /\ sessionIdRepository = <<>>
  /\ ssid = <<>>
  /\ wifiPassword = <<>>
  /\ configFile = NoFile
  /\ usersFile = NoFile
  /\ now = [hour |-> 0, minute |-> 0, second |-> 0]
  /\ browser = NoBrowser
  /\ authenticated = FALSE
  /\ response = NoResponse
  /\ before = NoHistory
  /\ candidate \in Candidates
  /\ validated = "pending"
  /\ serial = {}
  /\ emitted = "NoChange"

\* bool isSuccess = validateIrrigationSchedule(candidate)
Validate ==
  /\ pc = "validate"
  /\ validated = "pending"
  /\ validated' = IF validateIrrigationSchedule(candidate) THEN "success" ELSE "failure"
  /\ serial' = validationMessages(candidate)
  /\ UNCHANGED <<pc, automationStatus, relayState, relayPin, currentSchedule, waterToday,
                 isPreviousMisting, sessionIdRepository, ssid, wifiPassword, configFile,
                 usersFile, now, browser, authenticated, response, before, candidate,
                 emitted>>

NextValidate == Validate

SpecValidate == InitValidate /\ [][NextValidate]_vars

(***************************************************************************)
(* irrigate() on its own: the controller stays in AUTO_RUN with no client  *)
(* and the clock runs across the irrigation window of a validated schedule *)
(***************************************************************************)

SweepSchedules ==
  {defaultSchedule, MkSchedule(8, 2, 10, 5), MkSchedule(0, 1, 1, 59),
   MkSchedule(22, 1, 59, 1), MkSchedule(5, 1, 7, 30), MkSchedule(6, 2, 7, 30),
   MkSchedule(15, 2, 90, 30)}

\* the clock reading one second after t
NextSecond(t) ==
  IF t.second < 59 THEN [t EXCEPT !.second = t.second + 1]
  ELSE IF t.minute < 59 THEN [t EXCEPT !.second = 0, !.minute = t.minute + 1]
  ELSE [hour |-> (t.hour + 1) % 24, minute |-> 0, second |-> 0]

\* the last second before the window of the schedule opens
SweepBegin(schedule) ==
  [hour |-> (schedule.irrigationBeginHours + 23) % 24, minute |-> 59, second |-> 59]

\* the first second after the window of the schedule has closed
SweepEnd(schedule) ==
  [hour |-> schedule.irrigationBeginHours + schedule.irrigationDurationHours,
   minute |-> 0, second |-> 0]

\* seconds since midnight, to order clock readings of one day
SecondOfDay(t) == (t.hour * 60 + t.minute) * 60 + t.second

InitSweep ==
  /\ pc = "sweep"
  /\ automationStatus = AUTO_RUN
  /\ relayState = RELAY_OFF
  /\ relayPin = switchRelay(RELAY_OFF)
  /\ currentSchedule \in {s \in SweepSchedules : validateIrrigationSchedule(s)}
  /\ waterToday = IrrigationWindow(currentSchedule)
  /\ isPreviousMisting = FALSE
  /\ sessionIdRepository = <<>>
  /\ ssid = <<>>
  /\ wifiPassword = <<>>
  /\ configFile = NoFile
  /\ usersFile = NoFile
  /\ now = SweepBegin(currentSchedule)
  /\ browser = NoBrowser
  /\ authenticated = FALSE
  /\ response = NoResponse
  /\ before = NoHistory
  /\ candidate = NULL_SCHEDULE
  /\ validated = "pending"
  /\ serial = {}
  /\ emitted = "NoChange"

\* one loop() iteration with no client in AUTO_RUN: irrigate(currentSchedule) with
\* rtc.now() reading t
SchedulerTick(t) ==
  /\ \E verdict \in {irrigate(currentSchedule, waterToday, isPreviousMisting, t)} :
       /\ now' = t
       /\ relayPin' = IF verdict.misted THEN switchRelay(verdict.isMisting) ELSE relayPin
       /\ isPreviousMisting' = verdict.isPreviousMisting
       /\ emitted' = Command(verdict)
  /\ UNCHANGED <<pc, automationStatus, relayState, currentSchedule, waterToday,
                 sessionIdRepository, ssid, wifiPassword, configFile, usersFile, browser,
                 authenticated, response, before, candidate, validated, serial>>

\* the next iteration runs one second after the last
SweepTick ==
  /\ pc = "sweep"
  /\ now # SweepEnd(currentSchedule)
  /\ SchedulerTick(NextSecond(now))

\* the next iteration runs later, at one of the readings of Times
SweepSkip ==
  /\ pc = "sweep"
  /\ \E t \in Times :
       /\ SecondOfDay(now) <= SecondOfDay(t)
       /\ SecondOfDay(t) <= SecondOfDay(SweepEnd(currentSchedule))
       /\ SchedulerTick(t)

NextSweep ==
  \/ SweepTick
  \/ SweepSkip

SpecSweep == InitSweep /\ [][NextSweep]_vars

(***************************************************************************)
(* Configuration round trip: writeConfigToFS, then readConfigFromFS         *)
(***************************************************************************)

\* a WPA passphrase that reads like a line of config.txt
passwordLikeProperty == N_mistPeriodMinutes \o <<":", "7">>
\* a network name that reads like a line of config.txt
ssidLikeProperty == N_irrigationBeginHours \o <<":", " ", "3">>

\* the WiFi credentials readConfigFromFS may have left in ssid and wifiPassword
ConfigSsids == {defaultSsid, storedSsid, ssidLikeProperty}
ConfigPasswords == {defaultPassword, storedPassword, passwordLikeProperty}

\* the schedules validateIrrigationSchedule accepts
ValidatedCandidates == {s \in Candidates : validateIrrigationSchedule(s)}

InitConfig ==
  /\ pc = "persist"
  /\ automationStatus = AUTO_CONFIG
  /\ relayState = RELAY_OFF
  /\ relayPin = "UNSET"
  /\ currentSchedule = NULL_SCHEDULE
  /\ waterToday = [begin |-> 0, end |-> 0]
  /\ isPreviousMisting = FALSE
  /\ sessionIdRepository = <<>>
  /\ ssid \in ConfigSsids
  /\ wifiPassword \in ConfigPasswords
  /\ configFile = NoFile
  /\ usersFile = NoFile
  /\ now = [hour |-> 0, minute |-> 0, second |-> 0]
  /\ browser = NoBrowser
  /\ authenticated = FALSE
  /\ response = NoResponse
  /\ before = NoHistory
  /\ candidate \in ValidatedCandidates
  /\ validated = "success"
  /\ serial = {}
  /\ emitted = "NoChange"

\* writeConfigToFS(ssid, wifiPassword, candidate)
PersistConfig ==
  /\ pc = "persist"
  /\ \E written \in {"printed", "notMounted", "notOpened", "notPrinted"} :
       /\ pc' = IF written = "notMounted" THEN "halted" ELSE "reload"
       /\ configFile' = IF written = "printed"
                        THEN FileOf(ConfigFileContents(ssid, wifiPassword, candidate))
                        ELSE IF written = "notPrinted" THEN FileOf(<<>>) ELSE configFile
  /\ UNCHANGED <<automationStatus, relayState, relayPin, currentSchedule, waterToday,
                 isPreviousMisting, sessionIdRepository, ssid, wifiPassword, usersFile,
                 now, browser, authenticated, response, before, candidate, validated,
                 serial, emitted>>

\* readConfigFromFS(ssid, wifiPassword, currentSchedule)
ReloadConfig ==
  /\ pc = "reload"
  /\ \E mounted \in BOOLEAN :
       IF ~mounted
       THEN /\ pc' = "halted"
            /\ UNCHANGED <<ssid, wifiPassword, currentSchedule>>
       ELSE /\ pc' = "loaded"
            /\ IF configFile.exists
               THEN \E config \in {ParseConfig(configFile.contents)} :
                      /\ ssid' = config.ssid
                      /\ wifiPassword' = config.wifiPassword
                      /\ currentSchedule' = config.schedule
               ELSE UNCHANGED <<ssid, wifiPassword, currentSchedule>>
  /\ UNCHANGED <<automationStatus, relayState, relayPin, waterToday, isPreviousMisting,
                 sessionIdRepository, configFile, usersFile, now, browser, authenticated,
                 response, before, candidate, validated, serial, emitted>>

NextConfig ==
  \/ PersistConfig
  \/ ReloadConfig

SpecConfig == InitConfig /\ [][NextConfig]_vars

(***************************************************************************)
(* The AUTO_CONFIG case for every value of its request string              *)
(***************************************************************************)

\* a field of the schedule form as the query carries it, or its absence
Field(value) == [present |-> TRUE, value |-> value]
AbsentField == [present |-> FALSE, value |-> <<>>]

BeginFields ==
  {Field(<<"8">>), Field(<<"2","3">>), Field(<<>>), Field(V_abc), Field(<<"-","1">>),
   AbsentField}
DurationFields == {Field(<<"2">>), Field(<<>>), Field(<<"2","x">>)}
PeriodFields == {Field(<<"1","0">>), Field(<<"1",".","5">>)}
SecondsFields == {Field(<<"5">>), Field(<<"7","0">>), AbsentField}

QueryField(name, field) ==
  IF field.present THEN <<name \o <<"=">> \o field.value>> ELSE <<>>

RECURSIVE JoinQuery(_)
JoinQuery(parts) ==
  IF parts = <<>> THEN <<>>
  ELSE IF Len(parts) = 1 THEN parts[1]
  ELSE parts[1] \o <<"&">> \o JoinQuery(Tail(parts))

\* the request line of a submission with these fields
SubmissionLine(b, d, p, s) ==
  RequestLine(S_GET,
    Q_PREFIX \o JoinQuery(QueryField(N_irrigationBeginHours, b)
                          \o QueryField(N_irrigationDurationHours, d)
                          \o QueryField(N_mistPeriodMinutes, p)
                          \o QueryField(N_mistDurationSeconds, s))
             \o Q_SUBMIT)

SubmissionLines ==
  {SubmissionLine(b, d, p, s) : b \in BeginFields, d \in DurationFields,
                                p \in PeriodFields, s \in SecondsFields}

InitUpdate ==
  /\ pc = "switch"
  /\ automationStatus = AUTO_CONFIG
  /\ relayState = RELAY_OFF
  /\ relayPin = switchRelay(RELAY_OFF)
  /\ currentSchedule \in {defaultSchedule, MkSchedule(8, 2, 10, 5)}
  /\ waterToday = IrrigationWindow(currentSchedule)
  /\ isPreviousMisting \in BOOLEAN
  /\ sessionIdRepository = <<>>
  /\ ssid = storedSsid
  /\ wifiPassword = storedPassword
  /\ configFile = FileOf(ConfigFileContents(ssid, wifiPassword, currentSchedule))
  /\ usersFile = NoFile
  /\ now = [hour |-> 0, minute |-> 0, second |-> 0]
  /\ \E line \in SubmissionLines : browser = Browser(line, Headers(<<>>), <<>>)
  /\ authenticated = TRUE
  /\ response = NoResponse
  /\ before = NoHistory
  /\ candidate = NULL_SCHEDULE
  /\ validated = "pending"
  /\ serial = {}
  /\ emitted = "NoChange"

\* loop(), case AUTO_CONFIG, with request holding the request line
UpdateCase ==
  /\ pc = "switch"
  /\ automationStatus = AUTO_CONFIG
  /\ AutoConfigCase(browser.line)
  /\ UNCHANGED <<relayState, relayPin, sessionIdRepository, ssid, wifiPassword,
                 usersFile, now, emitted>>

NextUpdate == UpdateCase

SpecUpdate == InitUpdate /\ [][NextUpdate]_vars

(***************************************************************************)
(* The earlier sketch: initConfig                                           *)
(***************************************************************************)

N_beginIrrigationHours == <<"b","e","g","i","n","I","r","r","i","g","a","t","i","o","n","H","o","u","r","s">>

\* a config.txt with the properties initConfig reads
EarlierConfigContents(ssidStr, passwordStr, schedule) ==
  createPropertyValue(N_SSID, ssidStr)
  \o createPropertyValue(N_password, passwordStr)
  \o createPropertyValueInt(N_beginIrrigationHours, schedule.irrigationBeginHours)
  \o createPropertyValueInt(N_irrigationDurationHours, schedule.irrigationDurationHours)
  \o createPropertyValueInt(N_mistPeriodMinutes, schedule.mistPeriodMinutes)
  \o createPropertyValueInt(N_mistDurationSeconds, schedule.mistDurationSeconds)

\* initConfig(ssid, password, schedule) on the contents of config.txt; the first field
\* of the schedule is beginIrrigationHours
initConfig(fileContents) ==
  LET beginIrrigationHoursStr    == extractPropertyValue(fileContents, N_beginIrrigationHours)
      irrigationDurationHoursStr == extractPropertyValue(fileContents, N_irrigationDurationHours)
      mistPeriodMinutesStr       == extractPropertyValue(fileContents, N_mistPeriodMinutes)
      mistDurationSecondsStr     == extractPropertyValue(fileContents, N_mistDurationSeconds)
  IN [ssid |-> extractPropertyValue(fileContents, N_SSID),
      wifiPassword |-> extractPropertyValue(fileContents, N_password),
      schedule |-> MkSchedule(toInt(mistDurationSecondsStr),
                              toInt(irrigationDurationHoursStr),
                              toInt(mistPeriodMinutesStr),
                              toInt(mistDurationSecondsStr))]

InitEarlier ==
  /\ pc = "initConfig"
  /\ automationStatus = AUTO_RUN
  /\ relayState = RELAY_OFF
  /\ relayPin = switchRelay(RELAY_OFF)
  /\ currentSchedule = NULL_SCHEDULE
  /\ waterToday = [begin |-> 0, end |-> 0]
  /\ isPreviousMisting = FALSE
  /\ sessionIdRepository = <<>>
  /\ ssid = <<>>
  /\ wifiPassword = <<>>
  /\ candidate \in ValidatedCandidates
  /\ configFile \in {NoFile, FileOf(EarlierConfigContents(storedSsid, storedPassword, candidate))}
  /\ usersFile = NoFile
  /\ now = [hour |-> 0, minute |-> 0, second |-> 0]
  /\ browser = NoBrowser
  /\ authenticated = FALSE
  /\ response = NoResponse
  /\ before = NoHistory
  /\ validated = "pending"
  /\ serial = {}
  /\ emitted = "NoChange"

\* setup() of the earlier sketch: initConfig(ssid, password, schedule)
InitConfigLoad ==
  /\ pc = "initConfig"
  /\ \E mounted \in BOOLEAN :
       IF ~mounted
       THEN /\ pc' = "halted"
            /\ UNCHANGED <<ssid, wifiPassword, currentSchedule>>
       ELSE IF configFile.exists
            THEN \E config \in {initConfig(configFile.contents)} :
                   /\ pc' = "loaded"
                   /\ ssid' = config.ssid
                   /\ wifiPassword' = config.wifiPassword
                   /\ currentSchedule' = config.schedule
            ELSE /\ pc' = "notLoaded"
                 /\ UNCHANGED <<ssid, wifiPassword, currentSchedule>>
  /\ UNCHANGED <<automationStatus, relayState, relayPin, waterToday, isPreviousMisting,
                 sessionIdRepository, configFile, usersFile, now, browser, authenticated,
                 response, before, candidate, validated, serial, emitted>>

NextEarlier == InitConfigLoad

SpecEarlier == InitEarlier /\ [][NextEarlier]_vars

(***************************************************************************)
(* Properties                                                              *)
(***************************************************************************)

ValveOpen == relayPin = HIGH
ValveClosed == relayPin = LOW

Running == pc \in {"accept", "switch"}

\* the request lines of the operator's commands
ManualOnLine == RequestLine(S_GET, T_RELAY_ON)
ManualOffLine == RequestLine(S_GET, T_RELAY_OFF)
AutoStartLine == RequestLine(S_GET, T_AUTO_START)
ScheduleLines == {RequestLine(S_GET, target) : target \in ScheduleTargets}
ValidScheduleLine ==
  RequestLine(S_GET, ScheduleTarget(IntToString(8), IntToString(2), IntToString(10),
                                    IntToString(5)))
RejectedScheduleLines == ScheduleLines \ {ValidScheduleLine}

\* handleRequest has returned for an authenticated request with this line, and the
\* switch of the same iteration is next
Handled(line) == pc = "switch" /\ browser.connected /\ authenticated /\ browser.line = line

\* handleRequest has returned for a request that did not authenticate and was not a
\* successful login
HandledUnauthenticated ==
  pc = "switch" /\ browser.connected /\ ~authenticated /\ response.kind # "redirectRoot"

\* C1: the loop iteration that handles a request which does not authenticate and is
\* not a successful login leaves automationStatus and the valve output exactly as
\* they were before the request.
C1_UnauthenticatedIterationChangesNothing ==
  [][(HandledUnauthenticated /\ pc' = "accept")
       => (automationStatus' = before.automationStatus /\ relayPin' = before.relayPin)]_vars

\* C2: automationStatus is always one of MANUAL_ACTIVE, MANUAL_INACTIVE, AUTO_CONFIG,
\* AUTO_START, AUTO_RUN, and it is AUTO_RUN until the first loop iteration.
C2_AutomationStatusInStateSet ==
  /\ automationStatus \in {MANUAL_ACTIVE, MANUAL_INACTIVE, AUTO_CONFIG, AUTO_START, AUTO_RUN}
  /\ (pc \in {"boot", "setup"} => automationStatus = AUTO_RUN)

\* C3: an authenticated GET /RELAY=ON (/RELAY=OFF) records relayState on (off) and
\* returns MANUAL_ACTIVE, from any automationStatus; the MANUAL_ACTIVE case of the
\* switch drives the relay to exactly the recorded state and moves to MANUAL_INACTIVE.
C3_ManualOverride ==
  [][/\ (Handled(ManualOnLine)'
           => (automationStatus' = MANUAL_ACTIVE /\ relayState' = RELAY_ON))
     /\ (Handled(ManualOffLine)'
           => (automationStatus' = MANUAL_ACTIVE /\ relayState' = RELAY_OFF))
     /\ ((pc = "switch" /\ automationStatus = MANUAL_ACTIVE)
           => /\ relayPin' = (IF relayState = RELAY_ON THEN HIGH ELSE LOW)
              /\ relayState' = relayState
              /\ automationStatus' = MANUAL_INACTIVE
              /\ pc' = "accept")]_vars

\* C3 witness: the tick after a manual /RELAY=OFF that followed a manual /RELAY=ON
\* has closed the valve and left MANUAL_INACTIVE
C3_Witness ==
  /\ pc = "accept"
  /\ automationStatus = MANUAL_INACTIVE
  /\ relayState = RELAY_OFF
  /\ ValveClosed
  /\ isPreviousMisting

\* a loop step in which no client is being handled
NoRequestStep ==
  \/ (pc = "accept" /\ pc' = "switch" /\ ~browser'.connected)
  \/ (pc = "switch" /\ ~browser.connected)

\* C4: in MANUAL_INACTIVE with no request, a tick leaves automationStatus, the valve
\* output and isPreviousMisting unchanged, whatever the clock reads.
C4_ManualInactiveTickChangesNothing ==
  [][(automationStatus = MANUAL_INACTIVE /\ NoRequestStep)
       => /\ automationStatus' = MANUAL_INACTIVE
          /\ relayPin' = relayPin
          /\ isPreviousMisting' = isPreviousMisting
          /\ pc' # "halted"]_vars

\* C4 witness: a tick without a client is dispatching in MANUAL_INACTIVE while the
\* valve is open and the scheduler last saw a mist tile
C4_Witness ==
  /\ pc = "switch"
  /\ ~browser.connected
  /\ automationStatus = MANUAL_INACTIVE
  /\ ValveOpen
  /\ isPreviousMisting

\* C5: an authenticated GET /RELAY=AUTO_START returns AUTO_START from any
\* automationStatus; the AUTO_START case of the switch closes the valve and moves to
\* AUTO_RUN.
C5_AutoStartClosesValve ==
  [][/\ (Handled(AutoStartLine)' => automationStatus' = AUTO_START)
     /\ ((pc = "switch" /\ automationStatus = AUTO_START)
           => (ValveClosed' /\ automationStatus' = AUTO_RUN /\ pc' = "accept"))]_vars

\* C5 witness: AUTO_START was requested in manual mode with the valve open and the
\* recorded relay state on
C5_Witness ==
  /\ Handled(AutoStartLine)
  /\ before.automationStatus = MANUAL_INACTIVE
  /\ ValveOpen
  /\ relayState = RELAY_ON

\* C6: an authenticated schedule submission (GET /?irrigationBeginHours=..&...) makes
\* handleRequest return AUTO_CONFIG.
C6_SubmissionEntersAutoConfig ==
  \A line \in ScheduleLines : Handled(line) => automationStatus = AUTO_CONFIG

\* the schedule config.txt holds
PersistedSchedule == ParseConfig(configFile.contents).schedule

\* C7: after the iteration that handled an authenticated submission of a schedule
\* that passes validation, the live schedule is the submitted one, config.txt holds
\* it, the irrigation window is re-initialised for it and automationStatus is
\* AUTO_START.
C7_ValidSubmissionTakesEffect ==
  [][(Handled(ValidScheduleLine) /\ pc' = "accept")
       => /\ currentSchedule' = MkSchedule(8, 2, 10, 5)
          /\ configFile'.exists /\ PersistedSchedule' = MkSchedule(8, 2, 10, 5)
          /\ waterToday' = [begin |-> 8, end |-> 10]
          /\ isPreviousMisting' = FALSE
          /\ automationStatus' = AUTO_START]_vars

\* C8: the iteration that handles a malformed or out-of-range schedule submission
\* leaves the live schedule, the irrigation window and config.txt unchanged, does not
\* halt, and proceeds to AUTO_START.
C8_RejectedSubmissionKeepsSchedule ==
  [][\A line \in RejectedScheduleLines :
       Handled(line)
         => /\ currentSchedule' = currentSchedule
            /\ waterToday' = waterToday
            /\ configFile' = configFile
            /\ pc' = "accept"
            /\ automationStatus' = AUTO_START]_vars

\* C9: once setup has completed the live schedule satisfies 0 <= begin <= 23,
\* duration >= 1, begin + duration < 24, 0 < period*60 < duration*3600 and
\* 0 < mist duration < 60 (hence mist duration < period*60).
C9_LiveScheduleInRange ==
  Running =>
    /\ 0 <= currentSchedule.irrigationBeginHours
    /\ currentSchedule.irrigationBeginHours <= 23
    /\ currentSchedule.irrigationDurationHours >= 1
    /\ currentSchedule.irrigationBeginHours + currentSchedule.irrigationDurationHours < 24
    /\ 0 < currentSchedule.mistPeriodMinutes * 60
    /\ currentSchedule.mistPeriodMinutes * 60 < currentSchedule.irrigationDurationHours * 3600
    /\ 0 < currentSchedule.mistDurationSeconds
    /\ currentSchedule.mistDurationSeconds < 60
    /\ currentSchedule.mistDurationSeconds < currentSchedule.mistPeriodMinutes * 60

\* C9 witness: the controller runs on a schedule loaded from config.txt, after a
\* request has been handled
C9_Witness ==
  /\ pc = "switch"
  /\ browser.connected
  /\ configFile.exists
  /\ currentSchedule = MkSchedule(8, 2, 10, 5)

\* the precondition of the validator property as stated: b+d<24, d>0, 0<p<d*60, 0<s<60
ClausesHold(schedule) ==
  /\ schedule.irrigationBeginHours + schedule.irrigationDurationHours < 24
  /\ schedule.irrigationDurationHours > 0
  /\ 0 < schedule.mistPeriodMinutes
  /\ schedule.mistPeriodMinutes < schedule.irrigationDurationHours * 60
  /\ 0 < schedule.mistDurationSeconds
  /\ schedule.mistDurationSeconds < 60

\* C10 as stated: for every schedule with b+d<24, d>0, 0<p<d*60 and 0<s<60, negative
\* fields included, validateIrrigationSchedule succeeds.
C10_ClausesImplySuccess ==
  (validated # "pending" /\ ClausesHold(candidate)) => validated = "success"

\* C10 amended: for every schedule with 0 <= b, b+d<24, d>0, 0<p<d*60 and 0<s<60,
\* validateIrrigationSchedule succeeds.
C10_ClausesAndBeginNonNegativeImplySuccess ==
  (validated # "pending" /\ candidate.irrigationBeginHours >= 0 /\ ClausesHold(candidate))
    => validated = "success"

\* C10 witness: a schedule at the edges of every range was validated and accepted
C10_Witness ==
  /\ validated = "success"
  /\ candidate = MkSchedule(0, 3, 179, 59)

\* the clauses of the validator, as the checks that reject a schedule
BeginViolated(schedule) ==
  schedule.irrigationBeginHours < 0 \/ schedule.irrigationBeginHours > 23
DurationViolated(schedule) ==
  \/ schedule.irrigationDurationHours <= 0
  \/ schedule.irrigationBeginHours + schedule.irrigationDurationHours >= 24
PeriodViolated(schedule) ==
  \/ schedule.mistPeriodMinutes <= 0
  \/ schedule.mistPeriodMinutes >= schedule.irrigationDurationHours * 60
MistViolated(schedule) ==
  schedule.mistDurationSeconds <= 0 \/ schedule.mistDurationSeconds >= 60

\* the call of validateIrrigationSchedule on its own has returned
ValidateReturns == validated = "pending" /\ validated' # "pending"

\* C11: validateIrrigationSchedule fails whenever at least one clause is violated,
\* even when every other clause holds; every one of the four checks is evaluated (each
\* violated clause is reported, whatever the other checks found); the schedule and
\* the controller state are not modified.
C11_AnyViolatedClauseFails ==
  [][ValidateReturns
       => /\ ((BeginViolated(candidate) \/ DurationViolated(candidate)
               \/ PeriodViolated(candidate) \/ MistViolated(candidate))
                => validated' = "failure")
          /\ (BeginViolated(candidate) <=> BeginComplaint \in serial')
          /\ (DurationViolated(candidate) <=> DurationComplaint \in serial')
          /\ (PeriodViolated(candidate) <=> PeriodComplaint \in serial')
          /\ (MistViolated(candidate) <=> MistComplaint \in serial')
          /\ candidate' = candidate
          /\ UNCHANGED <<automationStatus, relayState, relayPin, currentSchedule,
                         waterToday, isPreviousMisting, configFile>>]_vars

\* C11 witness: a schedule whose only fault is a window that ends at 24:00 was
\* rejected, with that one complaint
C11_Witness ==
  /\ validated = "failure"
  /\ candidate = MkSchedule(21, 3, 1, 1)
  /\ serial = {DurationComplaint}

\* the hour of t lies in [irrigationBeginHours, irrigationBeginHours + irrigationDurationHours)
InWindow(schedule, t) ==
  /\ schedule.irrigationBeginHours <= t.hour
  /\ t.hour < schedule.irrigationBeginHours + schedule.irrigationDurationHours

\* there is a tile k that holds the second of the hour of t and that ends before the
\* window length
TileHolds(schedule, t) ==
  LET cs == t.minute * 60 + t.second
  IN \E k \in 0..(schedule.irrigationDurationHours * 60) :
        /\ k * schedule.mistPeriodMinutes * 60 <= cs
        /\ cs < k * schedule.mistPeriodMinutes * 60 + schedule.mistDurationSeconds
        /\ k * schedule.mistPeriodMinutes * 60 + schedule.mistDurationSeconds
             < schedule.irrigationDurationHours * 3600

\* t is a second of a mist tile of the live schedule
InTile(t) == InWindow(currentSchedule, t) /\ TileHolds(currentSchedule, t)

\* the switch of this iteration runs irrigate()
SchedulerRuns ==
  /\ pc = "switch"
  /\ automationStatus \notin {MANUAL_ACTIVE, MANUAL_INACTIVE, AUTO_CONFIG, AUTO_START}
  /\ pc' = "accept"

\* C12: irrigate() actuates the valve only when the computed mist state differs from
\* isPreviousMisting, and then sets isPreviousMisting to it; a tick that reads the
\* same clock value as the tick before it does nothing (no actuation,
\* isPreviousMisting unchanged).
C12_ActuatesOnlyOnTransition ==
  [][SchedulerRuns
       => /\ (emitted' = "On" => (~isPreviousMisting /\ isPreviousMisting' /\ ValveOpen'))
          /\ (emitted' = "Off" => (isPreviousMisting /\ ~isPreviousMisting' /\ ValveClosed'))
          /\ (emitted' = "NoChange"
                => (isPreviousMisting' = isPreviousMisting /\ relayPin' = relayPin))
          /\ (now' = now => emitted' = "NoChange")]_vars

\* C12 witness: after the tick at 10:00:03 opened the valve, a second tick at
\* 10:00:03 did nothing
C12_Witness ==
  /\ pc = "accept"
  /\ currentSchedule = defaultSchedule
  /\ now = Time(10, 0, 3)
  /\ emitted = "NoChange"
  /\ isPreviousMisting
  /\ ValveOpen

\* C13: while the clock advances second by second across the irrigation window of a
\* validated schedule, starting with isPreviousMisting false, irrigate() emits On
\* exactly at the seconds that enter a mist tile, Off exactly at the seconds that
\* leave one, and nothing at any other second.
C13_EdgeTriggeredSweep ==
  [][(pc = "sweep" /\ now' = NextSecond(now))
       => /\ (emitted' = "On" <=> (~InTile(now) /\ InTile(now')))
          /\ (emitted' = "Off" <=> (InTile(now) /\ ~InTile(now')))
          /\ (ValveOpen' <=> InTile(now'))]_vars

\* C13 witness: the sweep has just entered the second tile of the 7-minute schedule
C13_Witness ==
  /\ pc = "sweep"
  /\ currentSchedule = MkSchedule(5, 1, 7, 30)
  /\ now = Time(5, 7, 0)
  /\ emitted = "On"
  /\ ValveOpen

\* C14: after a tick inside the window the mist state is true iff some tile k >= 0
\* with k*period*60 + mistDuration < duration*3600 holds cs = minute*60 + second; for
\* schedule {10,4,20,5} successive ticks at 10:00:03, 10:00:07 and 10:20:02 give On,
\* Off, On.
C14_TileScanVerdict ==
  [][pc = "sweep"
       => /\ (InWindow(currentSchedule, now')
                => (isPreviousMisting' <=> TileHolds(currentSchedule, now')))
          /\ ((currentSchedule = defaultSchedule /\ now = SweepBegin(defaultSchedule)
               /\ now' = Time(10, 0, 3)) => emitted' = "On")
          /\ ((currentSchedule = defaultSchedule /\ now = Time(10, 0, 3)
               /\ now' = Time(10, 0, 7)) => emitted' = "Off")
          /\ ((currentSchedule = defaultSchedule /\ now = Time(10, 0, 7)
               /\ now' = Time(10, 20, 2)) => emitted' = "On")]_vars

\* C14 witness: under {10,4,20,5} the tick at 10:20:02 found the valve closed and
\* opened it
C14_Witness ==
  /\ pc = "sweep"
  /\ currentSchedule = defaultSchedule
  /\ now = Time(10, 20, 2)
  /\ emitted = "On"
  /\ isPreviousMisting

\* C15: a tick of irrigate() at an hour outside the irrigation window never emits
\* On and never opens the valve, whatever the schedule and isPreviousMisting.
C15_NeverOnOutsideWindow ==
  [][(SchedulerRuns /\ ~InWindow(currentSchedule, now'))
       => (emitted' # "On" /\ (ValveOpen' => ValveOpen))]_vars

\* C15 witness: a tick at 14:20:02, a tile second of an hour after the window of
\* {10,4,20,5}, left the valve closed
C15_Witness ==
  /\ pc = "accept"
  /\ currentSchedule = defaultSchedule
  /\ now = Time(14, 20, 2)
  /\ ~isPreviousMisting
  /\ emitted = "NoChange"
  /\ ValveClosed

\* C16: a tick of irrigate() outside the irrigation window emits Off (closing the
\* valve) if isPreviousMisting was true and nothing otherwise, and leaves
\* isPreviousMisting false.
C16_OffOnceOutsideWindow ==
  [][(SchedulerRuns /\ ~InWindow(currentSchedule, now'))
       => /\ (isPreviousMisting => (emitted' = "Off" /\ ValveClosed'))
          /\ (~isPreviousMisting => emitted' = "NoChange")
          /\ ~isPreviousMisting']_vars

\* handleRequest runs for a client and returns
RequestHandled == pc = "accept" /\ pc' = "switch" /\ browser'.connected

\* s holds sub as a contiguous run of characters
Contains(s, sub) ==
  \E i \in 0..(Len(s) - Len(sub)) : \A j \in 1..Len(sub) : s[i + j] = sub[j]

\* C17: a request is authenticated iff a non-empty session id is stored and the value
\* of the request's Cookie header contains it as a substring; an authenticated GET is
\* answered with the control page and no other GET is.
C17_AuthenticatedIffCookieHoldsToken ==
  [][RequestHandled
       => /\ (authenticated'
                <=> (sessionIdRepository # <<>>
                     /\ Contains(extractCookie(browser'), sessionIdRepository)))
          /\ (Contains(browser'.line, S_GET)
                => (response'.kind = "page" <=> authenticated'))]_vars

\* C17 witness: a request whose cookie holds the stored session id between two other
\* cookies was authenticated and served
C17_Witness ==
  /\ pc = "switch"
  /\ authenticated
  /\ sessionIdRepository # <<>>
  /\ extractCookie(browser) = EmbeddedCookie(sessionIdRepository)
  /\ response.kind = "page"

\* C18: for an unauthenticated request /login is answered with the login page,
\* /authenticate with the login check, and every other target, GET or POST, with the
\* redirect to /login; none of them is interpreted as a manual, auto-start or
\* schedule command (relayState is untouched and none of MANUAL_ACTIVE, AUTO_START,
\* AUTO_CONFIG is returned).
C18_UnauthenticatedTargets ==
  [][(RequestHandled /\ ~authenticated')
       => /\ relayState' = relayState
          /\ automationStatus' \notin {MANUAL_ACTIVE, AUTO_START, AUTO_CONFIG}
          /\ (extractTarget(browser'.line) = T_LOGIN => response'.kind = "login")
          /\ (extractTarget(browser'.line) \notin {T_LOGIN, T_AUTHENTICATE}
                => (response'.kind = "redirectLogin"
                    /\ sessionIdRepository' = sessionIdRepository))
          /\ response'.kind \notin {"page", "notFound"}]_vars

\* C18 witness: while a session is live and the controller is in manual mode, a
\* GET /RELAY=ON without the cookie was redirected to /login
C18_Witness ==
  /\ pc = "switch"
  /\ browser.connected
  /\ ~authenticated
  /\ browser.line = ManualOnLine
  /\ sessionIdRepository # <<>>
  /\ before.automationStatus = MANUAL_INACTIVE
  /\ relayState = RELAY_OFF
  /\ response.kind = "redirectLogin"

\* an unauthenticated POST /authenticate has been handled
LoginHandled ==
  /\ RequestHandled
  /\ ~authenticated'
  /\ browser'.line = RequestLine(S_POST, T_AUTHENTICATE)

\* C19: every unauthenticated POST /authenticate is answered: either with the
\* redirect to / carrying the session id just stored, or with the redirect to
\* /login, the stored session id unchanged.
C19_LoginAlwaysAnswered ==
  [][LoginHandled
       => \/ /\ response'.kind = "redirectRoot"
             /\ response'.cookie = sessionIdRepository'
             /\ sessionIdRepository' # <<>>
          \/ /\ response'.kind = "redirectLogin"
             /\ sessionIdRepository' = sessionIdRepository]_vars

\* the login form's fields as presented in the requests considered
PresentedUserNames == {webUserName, <<>>}
PresentedPasswords == {webPassword, P_nope}

\* users.txt holds the record userName = digest
StoreHolds(userName, digest) ==
  usersFile = FileOf(CredentialsFileContents(userName, digest))

\* C20: POST /authenticate stores a new session id only if users.txt holds a record
\* named exactly as the presented userName whose digest is the digest of the
\* presented password.
C20_SessionOnlyForStoredCredentials ==
  [][\A userName \in PresentedUserNames, password \in PresentedPasswords :
       (LoginHandled /\ browser'.body = LoginBody(userName, password)
        /\ sessionIdRepository' # sessionIdRepository)
         => (userName # <<>> /\ StoreHolds(userName, hasher(password, <<>>, TRUE).result))]_vars

\* C21: one session id is stored at a time: a successful login stores exactly the id
\* it sends in Set-cookie, replacing the one stored before, and a cookie that carries
\* only another id that createSessionId has produced does not authenticate.
C21_SingleLiveSession ==
  [][RequestHandled
       => /\ (response'.kind = "redirectRoot" => sessionIdRepository' = response'.cookie)
          /\ \A id \in SessionIds :
               (id # sessionIdRepository /\ extractCookie(browser') = SessionCookie(id))
                 => (~authenticated' /\ response'.kind \notin {"page", "notFound"})]_vars

\* C21 witness: after a login that stored another id, a /RELAY=ON with the cookie of
\* the first id was redirected to /login
C21_Witness ==
  /\ pc = "switch"
  /\ sessionIdRepository = createSessionId(2, TRUE).result
  /\ extractCookie(browser) = SessionCookie(createSessionId(1, TRUE).result)
  /\ browser.line = ManualOnLine
  /\ ~authenticated
  /\ response.kind = "redirectLogin"

\* C22: the stored session id changes only in a successful login, which stores the
\* id it sends; ticks, clock readings, authenticated requests and failed logins leave
\* it alone, and a request carrying it is authenticated.
C22_SessionNeverExpires ==
  [][/\ (sessionIdRepository' # sessionIdRepository
           => (LoginHandled /\ response'.kind = "redirectRoot"
               /\ response'.cookie = sessionIdRepository'))
     /\ ((RequestHandled /\ sessionIdRepository # <<>>
          /\ extractCookie(browser') = SessionCookie(sessionIdRepository))
           => authenticated')]_vars

\* C22 witness: in manual mode, after the scheduler last read 14:20:02, a request
\* carrying the stored session id was authenticated
C22_Witness ==
  /\ pc = "switch"
  /\ authenticated
  /\ sessionIdRepository # <<>>
  /\ extractCookie(browser) = SessionCookie(sessionIdRepository)
  /\ now = Time(14, 20, 2)
  /\ before.automationStatus = MANUAL_INACTIVE

\* an unauthenticated POST /authenticate is handled while psa_hash_compute fails, for
\* the password digest or for the session id
LoginMeetsHashFailure ==
  /\ pc = "accept"
  /\ pc' \in {"switch", "halted"}
  /\ browser'.connected
  /\ ~authenticated'
  /\ browser'.line = RequestLine(S_POST, T_AUTHENTICATE)
  /\ (~before'.io.passwordHashed \/ ~before'.io.sessionHashed)

\* C23: a login during which hashing fails is denied: the stored session id is
\* unchanged, no Set-cookie is sent and the controller does not halt.
C23_HashFailureDeniesLogin ==
  [][LoginMeetsHashFailure
       => /\ sessionIdRepository' = sessionIdRepository
          /\ response'.kind # "redirectRoot"
          /\ response'.cookie = <<>>
          /\ pc' = "switch"]_vars

\* C23 witness: with a session live, a login with the right credentials met a failure
\* of the session id derivation and was sent back to /login
C23_Witness ==
  /\ pc = "switch"
  /\ ~before.io.sessionHashed
  /\ browser.line = RequestLine(S_POST, T_AUTHENTICATE)
  /\ browser.body = LoginBody(webUserName, webPassword)
  /\ StoreHolds(webUserName, hasher(webPassword, <<>>, TRUE).result)
  /\ sessionIdRepository # <<>>
  /\ response.kind = "redirectLogin"

\* C24: a validated schedule printed to config.txt by writeConfigToFS and read back
\* by readConfigFromFS has the same four fields, whatever SSID and WiFi password are
\* stored with it.
C24_ConfigRoundTrip ==
  (pc = "loaded" /\ configFile.exists /\ configFile.contents # <<>>)
    => currentSchedule = candidate

\* setup() validates the schedule loaded from config.txt and the validator complains
StoredScheduleRejected == pc = "setup" /\ serial' # {}

\* case AUTO_CONFIG: updateSchedule rejects the submitted schedule
SubmittedScheduleRejected ==
  /\ pc = "switch"
  /\ automationStatus = AUTO_CONFIG
  /\ ~updateSchedule(LoopRequest(browser)).ok

\* C25: when validateIrrigationSchedule rejects a schedule, submitted or loaded at boot,
\* the controller does not halt and the live schedule stays what it was.
C25_ValidationFailureNeverFatal ==
  [][(StoredScheduleRejected \/ SubmittedScheduleRejected)
       => (pc' # "halted" /\ currentSchedule' = currentSchedule)]_vars

\* the dispatch of this iteration evaluates the scheduler once: irrigate() on one
\* reading of the clock
SchedulerEvaluated ==
  /\ pc' = "accept"
  /\ \E t \in Times :
       LET verdict == irrigate(currentSchedule, waterToday, isPreviousMisting, t)
       IN /\ now' = t
          /\ emitted' = Command(verdict)
          /\ isPreviousMisting' = verdict.isPreviousMisting
          /\ relayPin' = IF verdict.misted THEN switchRelay(verdict.isMisting) ELSE relayPin

\* C26: a connection is handled only at the start of an iteration, to completion and
\* before the dispatch, which handles none; and when the controller was in AUTO_RUN
\* before an iteration in which a stalled or unauthenticated client was handled (the
\* flash file system available), the dispatch of that iteration evaluates the scheduler.
C26_SchedulerNeverSkipped ==
  [][/\ (browser'.connected => (pc = "accept" /\ ~browser.connected))
     /\ (pc = "accept" => pc' \in {"switch", "halted"})
     /\ (pc = "switch" => (pc' \in {"accept", "halted"} /\ ~browser'.connected))
     /\ ((pc = "switch" /\ browser.connected /\ ~authenticated
          /\ before.automationStatus = AUTO_RUN)
           => SchedulerEvaluated)]_vars

\* C26 witness: in AUTO_RUN with a mist in progress, a stalled client has been
\* handled and the dispatch is due
C26_Witness ==
  /\ pc = "switch"
  /\ browser = StalledBrowser
  /\ ~authenticated
  /\ before.automationStatus = AUTO_RUN
  /\ isPreviousMisting
  /\ ValveOpen

\* C27: after every iteration whose dispatch ran irrigate(), the valve is open only if
\* the clock reading is inside the irrigation window and inside a mist tile of the
\* live schedule, whatever requests were handled before.
C27_OpenOnlyInTileAfterTick ==
  [][SchedulerRuns => (ValveOpen' => InTile(now'))]_vars

\* C28: the AUTO_START dispatch leaves isPreviousMisting false, so the next tick
\* inside a mist tile emits On.
C28_AutoStartResetsBaseline ==
  [][(pc = "switch" /\ automationStatus = AUTO_START /\ pc' = "accept")
       => ~isPreviousMisting']_vars

\* the dispatch carries out the set-valve-open of an authenticated GET /RELAY=ON
ManualOpenStep ==
  /\ pc = "switch"
  /\ automationStatus = MANUAL_ACTIVE
  /\ authenticated
  /\ browser.line = ManualOnLine
  /\ relayState = RELAY_ON

\* irrigate() emits On at a clock reading inside the window and inside a mist tile
SchedulerOnStep == SchedulerRuns /\ emitted' = "On" /\ InTile(now')

\* the step does not call mist()
NoActuationStep ==
  \/ pc # "switch"
  \/ automationStatus \in {MANUAL_INACTIVE, AUTO_CONFIG}
  \/ (SchedulerRuns /\ emitted' = "NoChange")

\* C29: the valve is closed from boot until it is first opened, and a step leaves it
\* open only if it is the manual set-valve-open of an authenticated request, or a
\* scheduler On inside the window and inside a mist tile, or if the valve was open
\* and the step does not actuate it.
C29_OpenOnlyByManualOrSchedulerOn ==
  /\ ~ValveOpen
  /\ [][ValveOpen' => \/ ManualOpenStep
                      \/ SchedulerOnStep
                      \/ (ValveOpen /\ NoActuationStep /\ relayPin' = relayPin)]_vars

\* C29 witness: the valve opened by an authenticated GET /RELAY=ON is open in manual
\* mode, the last clock reading 14:20:02 being outside the irrigation window
C29_Witness ==
  /\ pc = "accept"
  /\ ValveOpen
  /\ automationStatus = MANUAL_INACTIVE
  /\ relayState = RELAY_ON
  /\ now = Time(14, 20, 2)
  /\ ~InTile(now)
  /\ ~isPreviousMisting

\* the seconds from second 0 of the irrigation window of the live schedule to t
WindowSecond(t) ==
  (t.hour - currentSchedule.irrigationBeginHours) * 3600 + t.minute * 60 + t.second

\* t is second 0 of a tile of the tiling that starts at second 0 of the irrigation
\* window, has period mistPeriodMinutes*60 and ends its last tile before the window does
WindowTileStart(t) ==
  /\ InWindow(currentSchedule, t)
  /\ WindowSecond(t) % (currentSchedule.mistPeriodMinutes * 60) = 0
  /\ WindowSecond(t) + currentSchedule.mistDurationSeconds
       < currentSchedule.irrigationDurationHours * 3600

\* C30: in a 1-second sweep of the irrigation window of a validated schedule, On is
\* emitted exactly at the seconds that are a multiple of mistPeriodMinutes*60 seconds
\* after second 0 of the window, so consecutive On commands are mistPeriodMinutes*60
\* seconds apart.
C30_OnEveryPeriodFromWindowStart ==
  [][(pc = "sweep" /\ now' = NextSecond(now))
       => (emitted' = "On" <=> WindowTileStart(now'))]_vars

\* waterToday is the irrigation window of the live schedule
WindowMatchesSchedule ==
  /\ waterToday.begin = currentSchedule.irrigationBeginHours
  /\ waterToday.end = currentSchedule.irrigationBeginHours
                        + currentSchedule.irrigationDurationHours

\* C31: once setup() has completed, waterToday.begin = irrigationBeginHours and
\* waterToday.end = irrigationBeginHours + irrigationDurationHours of the live
\* schedule; a step that replaces the live schedule sets the window from the new
\* schedule and leaves isPreviousMisting false.
C31_WindowMatchesLiveSchedule ==
  /\ [](Running => WindowMatchesSchedule)
  /\ [][currentSchedule' # currentSchedule
          => (WindowMatchesSchedule' /\ ~isPreviousMisting')]_vars

\* C31 witness: setup() has just made the schedule of config.txt live, with the window
\* 8..10
C31_Witness ==
  /\ pc = "accept"
  /\ now = [hour |-> 0, minute |-> 0, second |-> 0]
  /\ currentSchedule = MkSchedule(8, 2, 10, 5)
  /\ waterToday = [begin |-> 8, end |-> 10]
  /\ ~isPreviousMisting

\* the AUTO_CONFIG case runs on a request whose schedule updateSchedule accepts
AcceptedSubmission ==
  /\ pc = "switch"
  /\ automationStatus = AUTO_CONFIG
  /\ updateSchedule(browser.line).ok

\* config.txt as writeConfigToFS prints it for the accepted schedule
AcceptedFile ==
  FileOf(ConfigFileContents(ssid, wifiPassword, updateSchedule(browser.line).schedule))

\* C32: when the schedule of a submission is accepted and config.txt cannot be opened
\* or printed, the live schedule, the irrigation window and isPreviousMisting stay as
\* they were and automationStatus becomes AUTO_START; the live schedule is replaced
\* only in a step that prints config.txt.
C32_FailedWriteKeepsSchedule ==
  [][AcceptedSubmission
       => /\ ((pc' # "halted" /\ configFile' # AcceptedFile)
                => /\ currentSchedule' = currentSchedule
                   /\ waterToday' = waterToday
                   /\ isPreviousMisting' = isPreviousMisting
                   /\ automationStatus' = AUTO_START
                   /\ pc' = "accept")
          /\ (currentSchedule' # currentSchedule => configFile' = AcceptedFile)]_vars

\* C32 witness: the submission 8/2/10/5 was accepted under the default schedule while
\* a mist was in progress and printing config.txt failed; the default schedule is live
C32_Witness ==
  /\ pc = "accept"
  /\ automationStatus = AUTO_START
  /\ configFile = FileOf(<<>>)
  /\ currentSchedule = defaultSchedule
  /\ waterToday = IrrigationWindow(defaultSchedule)
  /\ isPreviousMisting

\* the field is present and its value is one or more decimal digits
DecimalField(field) ==
  /\ field.present
  /\ Len(field.value) > 0
  /\ \A i \in 1..Len(field.value) : isDigit(field.value[i])

\* C36: interpretScheduleRequest succeeds only on a submission whose four values are
\* each one or more decimal digits; a value with a non-digit, an empty value or an
\* absent field makes it fail.
C36_InterpretedOnlyIfAllDecimal ==
  \A b \in BeginFields, d \in DurationFields, p \in PeriodFields, s \in SecondsFields :
     (pc = "switch" /\ browser.line = SubmissionLine(b, d, p, s))
       => (interpretScheduleRequest(browser.line).ok
             => (DecimalField(b) /\ DecimalField(d) /\ DecimalField(p) /\ DecimalField(s)))

\* the request lines of an authenticated GET that is no command: a reload of / and
\* the browser's favicon request
IgnoredLines == {RequestLine(S_GET, T_ROOT), RequestLine(S_GET, T_FAVICON)}

\* C33: the iteration that handles an authenticated GET of / or /favicon.ico leaves
\* automationStatus as it was before the request (one of the five states), and in
\* manual mode leaves the valve output as it was.
C33_UnrecognisedGetIgnored ==
  [][\A line \in IgnoredLines :
       (Handled(line) /\ pc' = "accept" /\ before.automationStatus # NULL_STATE)
         => /\ automationStatus' = before.automationStatus
            /\ (before.automationStatus = MANUAL_INACTIVE
                  => relayPin' = before.relayPin)]_vars

\* C34: whenever handleRequest has generated the page for a request other than a
\* manual command, the relay state the page shows is the state last driven to the
\* relay.
C34_ShownRelayStateIsDrivenState ==
  (pc = "switch" /\ response.kind = "page"
   /\ browser.line \notin {ManualOnLine, ManualOffLine})
    => (response.relay = RELAY_ON <=> ValveOpen)

\* C35: while no session id is stored, no request is authenticated, whatever its
\* Cookie header: handleRequest returns none of MANUAL_ACTIVE, AUTO_START and
\* AUTO_CONFIG, leaves relayState alone and sends no page.
C35_NoSessionNoAuthentication ==
  [][(RequestHandled /\ sessionIdRepository = <<>>)
       => /\ ~authenticated'
          /\ automationStatus' \notin {MANUAL_ACTIVE, AUTO_START, AUTO_CONFIG}
          /\ relayState' = relayState
          /\ response'.kind # "page"]_vars

\* C35 witness: before any login a GET /RELAY=ON carrying a session cookie was
\* redirected to /login
C35_Witness ==
  /\ pc = "switch"
  /\ sessionIdRepository = <<>>
  /\ browser.line = ManualOnLine
  /\ extractCookie(browser) = SessionCookie(createSessionId(1, TRUE).result)
  /\ ~authenticated
  /\ automationStatus = NULL_STATE
  /\ response.kind = "redirectLogin"

\* the second of the hour of t
SecondOfHour(t) == t.minute * 60 + t.second

\* the arithmetic test: the second of the hour, modulo the mist period, lies before
\* the mist duration
ArithmeticMist(schedule, t) ==
  SecondOfHour(t) % (schedule.mistPeriodMinutes * 60) < schedule.mistDurationSeconds

\* a tile that holds the second of the hour of t ends at or after the window length,
\* so that the scan stops before it
TileCutOff(schedule, t) ==
  \E k \in 0..60 :
     /\ k * schedule.mistPeriodMinutes * 60 <= SecondOfHour(t)
     /\ SecondOfHour(t) < k * schedule.mistPeriodMinutes * 60 + schedule.mistDurationSeconds
     /\ k * schedule.mistPeriodMinutes * 60 + schedule.mistDurationSeconds
          >= schedule.irrigationDurationHours * 3600

\* C37: after every tick inside the irrigation window of a validated schedule the
\* mist state the tile scan computed equals the arithmetic test
\* (minute*60 + second) mod (mistPeriodMinutes*60) < mistDurationSeconds, and no
\* tile that holds the current second is cut off by the stop condition of the scan.
C37_TileScanEqualsArithmetic ==
  [][(pc = "sweep" /\ InWindow(currentSchedule, now'))
       => /\ (isPreviousMisting' <=> ArithmeticMist(currentSchedule, now'))
          /\ ~TileCutOff(currentSchedule, now')]_vars

\* C37 witness: in the last tile of the hour of schedule {0,1,1,59}, which ends one
\* second before the window does, the valve is open
C37_Witness ==
  /\ pc = "sweep"
  /\ currentSchedule = MkSchedule(0, 1, 1, 59)
  /\ now = Time(0, 59, 58)
  /\ isPreviousMisting
  /\ ValveOpen

\* seconds of the hour at which the scan is examined: the first and the last of the
\* hour, and those of the clock readings considered
ScanSeconds == {0, 3599} \cup {SecondOfHour(t) : t \in Times}

\* C38: for every schedule validateIrrigationSchedule accepts and every second of the
\* hour examined, the tile-scan loop of irrigate() terminates.
C38_TileScanTerminates ==
  validated = "success"
    => \A currentSeconds \in ScanSeconds : ScanTerminates(candidate, currentSeconds)

\* C38 witness: the schedule {20,3,1,1} was accepted; at second 3599 of the hour its
\* scan passes over the sixty tiles of the hour and the 120 that follow before the
\* loop condition ends it in iteration 180
C38_Witness ==
  /\ validated = "success"
  /\ candidate = MkSchedule(20, 3, 1, 1)
  /\ \A k \in 0..179 : ~ScanExits(candidate, 3599, k)
  /\ ScanExits(candidate, 3599, 180)

\* setup() has halted the controller: no loop iteration has accepted a client
HaltedInSetup == pc = "halted" /\ ~browser.connected

\* C39: the first step of setup() drives the relay off and touches nothing else; from
\* then until the first loop iteration, and in every state in which setup() has
\* halted the controller, the valve is closed; before that step it is not open.
C39_RelayOffFirst ==
  /\ [](pc = "boot" => ~ValveOpen)
  /\ []((pc = "setup" \/ HaltedInSetup) => ValveClosed)
  /\ [][pc = "boot"
          => /\ ValveClosed'
             /\ UNCHANGED <<configFile, usersFile, ssid, wifiPassword, currentSchedule,
                            waterToday, sessionIdRepository, now, serial>>]_vars
  /\ [][pc = "setup" => (ValveClosed' /\ pc' \in {"accept", "halted"})]_vars

\* C39 witness: setup() halted on a stored schedule the validator rejects, the valve
\* closed
C39_Witness ==
  /\ HaltedInSetup
  /\ serial # {}
  /\ ValveClosed
  /\ relayState = RELAY_OFF

\* C40: after initConfig has loaded config.txt, each field of the schedule holds the
\* stored property of the same name: beginIrrigationHours, irrigationDurationHours,
\* mistPeriodMinutes and mistDurationSeconds.
C40_InitConfigLoadsEachField ==
  pc = "loaded" => currentSchedule = candidate

=============================================================================
